---- MODULE Spec2Model ----
(***************************************************************************)
(* Tree-view data providers of the sample extension: the static string     *)
(* tree (testView), the FTP explorer model, the file-system provider and   *)
(* the JSON outline provider.  Each provider is a state machine of its own *)
(* (SpecTree, SpecFtp, SpecFs, SpecJson); the providers share no state.    *)
(* Strings that the code takes apart (keys, document text) are sequences   *)
(* of one-character strings.                                               *)
(***************************************************************************)
EXTENDS Integers, Sequences, FiniteSets, TLC

VARIABLES
  nodes,      \* testView: the module-level interning map `nodes` (its keys)
  tvCall,     \* testView: the provider call made last and what it returned
  ftpClients, \* ftpExplorer: every Client constructed, with its owner and state
  ftpOps,     \* ftpExplorer: the FtpModel operations started, with their promise
  fs,         \* fileExplorer: the local file system (path -> entry)
  fsCalls,    \* fileExplorer: the FileSystemProvider calls in flight, by caller
  fsBefore,   \* fileExplorer: the file system as it was when each call started
  fsWatcher,  \* fileExplorer: the fs.watch watcher of FileSystemProvider.watch, if any
  fsQueue,    \* fileExplorer: notifications of the watcher, its callback not yet called
  fsChecks,   \* fileExplorer: callbacks of the watcher that await _.exists(filepath)
  fsFired,    \* fileExplorer: the FileChangeEvents _onDidChangeFile has fired, in order
  docText,    \* jsonOutline: the content of the JSON document open in the window
  activeEditor, \* jsonOutline: window.activeTextEditor (none, or the document's editor)
  joText,     \* jsonOutline: JsonOutlineProvider.text
  joTree,     \* jsonOutline: JsonOutlineProvider.tree
  joEditor,   \* jsonOutline: JsonOutlineProvider.editor
  autoRefresh, \* jsonOutline: JsonOutlineProvider.autoRefresh
  joEdit,     \* jsonOutline: the edit rename() built, not yet applied by the editor
  joTimers,   \* jsonOutline: the timers rename() has set, not yet run
  fired,      \* jsonOutline: the events the handler that ran last has fired, in order
  joCall,     \* jsonOutline: the query made last and its outcome, or the throw of a handler
  joEdits,    \* jsonOutline: document changes and renames so far
  depFiles,   \* nodeDependencies: the workspace root and the package.json files below it
  depCall     \* nodeDependencies: the DepNodeProvider query made last and its outcome

tvVars == <<nodes, tvCall>>
ftpVars == <<ftpClients, ftpOps>>
watchVars == <<fsWatcher, fsQueue, fsChecks, fsFired>>
fsVars == <<fs, fsCalls, fsBefore, fsWatcher, fsQueue, fsChecks, fsFired>>
joVars == <<docText, activeEditor, joText, joTree, joEditor, autoRefresh, joEdit, joTimers,
           fired, joCall, joEdits>>
depVars == <<depFiles, depCall>>
vars == <<nodes, tvCall, ftpClients, ftpOps, fs, fsCalls, fsBefore, fsWatcher, fsQueue,
         fsChecks, fsFired, docText, activeEditor,
         joText, joTree, joEditor, autoRefresh, joEdit, joTimers, fired, joCall, joEdits,
         depFiles, depCall>>

\* what an action of one provider leaves alone: the state of the others
TvFrame == UNCHANGED <<ftpVars, fsVars, joVars, depVars>>

FtpFrame == UNCHANGED <<tvVars, fsVars, joVars, depVars>>

FsFrame == UNCHANGED <<tvVars, ftpVars, joVars, depVars>>

JoFrame == UNCHANGED <<tvVars, ftpVars, fsVars, depVars>>

DepFrame == UNCHANGED <<tvVars, ftpVars, fsVars, joVars>>

\* An optional value (undefined | x) is the set of what is there: {} or {x}.
None == {}

Some(x) == {x}

The(o) == CHOOSE x \in o : TRUE

(***************************************************************************)
(* Bounds                                                                  *)
(***************************************************************************)
MaxKeyLen == 5       \* longest key a caller hands to the static-tree provider
MaxFtpOps == 1       \* FtpModel operations started in one run
MaxEntries == 3      \* entries in one FTP directory listing
MaxChunks == 2       \* 'data' events of one FTP download stream
MaxContent == 2      \* distinct file contents (1..MaxContent)
MaxEdits == 1        \* document changes and renames of the JSON document in one run
MaxChanges == 2      \* content changes carried by one document-change event
MaxNotes == 2        \* notifications of the file watcher after which no call is started

(***************************************************************************)
(* Generic helpers                                                         *)
(***************************************************************************)
SeqsUpTo(S, n) == UNION {[1..k -> S] : k \in 0..n}

Range(s) == {s[i] : i \in DOMAIN s}

\* String.prototype.substring(0, n) on a sequence of characters
Substring0(s, n) == SubSeq(s, 1, IF n < 0 THEN 0 ELSE IF n > Len(s) THEN Len(s) ELSE n)

(***************************************************************************)
(* testView: the static tree                                               *)
(***************************************************************************)
\* An object literal is the sequence of its entries in insertion order.
Entry(k, v) == [key |-> k, val |-> v]

EmptyObj == <<>>

As(n) == [i \in 1..n |-> "a"]

tree ==
  << Entry(As(1),
       << Entry(As(2),
            << Entry(As(3),
                 << Entry(As(4),
                      << Entry(As(5),
                           << Entry(As(6), EmptyObj) >>) >>) >>) >>),
          Entry(<<"a", "b">>, EmptyObj) >>),
     Entry(<<"b">>,
       << Entry(<<"b", "a">>, EmptyObj),
          Entry(<<"b", "b">>, EmptyObj) >>) >>

\* Object.keys(obj)
ObjectKeys(obj) == [i \in DOMAIN obj |-> obj[i].key]

HasKey(obj, k) == \E i \in DOMAIN obj : obj[i].key = k

\* obj[k]; undefined when obj has no such property
Prop(obj, k) ==
  IF HasKey(obj, k) THEN Some(obj[CHOOSE i \in DOMAIN obj : obj[i].key = k].val) ELSE None

\* getTreeElement: walk the prefixes of `element` down from the root;
\* null as soon as a prefix names no property
RECURSIVE TreeWalk(_, _, _)
TreeWalk(parent, element, i) ==
  IF i >= Len(element) THEN Some(parent)
  ELSE LET next == Prop(parent, Substring0(element, i + 1))
       IN IF next = None THEN None ELSE TreeWalk(The(next), element, i + 1)

getTreeElement(element) == TreeWalk(tree, element, 0)

\* getChildren(key: string): string[]; key is optional
getChildrenKeys(key) ==
  IF key = None \/ key = Some(<<>>) THEN ObjectKeys(tree)
  ELSE LET treeElement == getTreeElement(The(key))
       IN IF treeElement # None THEN ObjectKeys(The(treeElement)) ELSE <<>>

\* getTreeItem(key): label, highlights and collapsible state
getTreeItem(key) ==
  LET treeElement == getTreeElement(key)
  IN [ label |-> key,
       highlights |-> IF Len(key) > 1 THEN <<Len(key) - 2, Len(key) - 1>> ELSE <<>>,
       collapsibleState |->
         IF treeElement # None /\ Len(ObjectKeys(The(treeElement))) > 0
           THEN "Collapsed" ELSE "None",
       id |-> key ]

\* getParent with the slip of keeping the first character instead of dropping the last
getParentFirstChar(key) ==
  LET parentKey == Substring0(key, 1)
  IN IF parentKey # <<>> /\ Len(key) > 1 THEN Some([key |-> parentKey]) ELSE None

\* provider.getParent: drop the last character; undefined when nothing is left
getParent(key) ==
  LET parentKey == Substring0(key, Len(key) - 1)
  IN IF parentKey # <<>> THEN Some([key |-> parentKey]) ELSE None

\* The keys a caller can hand to the provider (reveal takes any typed label)
TvKeys == SeqsUpTo({"a", "b"}, MaxKeyLen) \ {<<>>}

\* an optional element { key }
TvElements == {None} \cup {Some([key |-> k]) : k \in TvKeys}

ElementKey(element) == IF element = None THEN None ELSE Some(The(element).key)

NoTvCall == [op |-> "none", arg |-> None, children |-> <<>>, item |-> None, parent |-> None]

TvInit ==
  /\ nodes = {}
  /\ tvCall = NoTvCall

\* provider.getChildren(element): the child keys, each interned by getNode
TvGetChildren(element) ==
  LET keys == getChildrenKeys(ElementKey(element))
  IN /\ nodes' = nodes \cup Range(keys)
     /\ tvCall' = [NoTvCall EXCEPT !.op = "getChildren", !.arg = element,
                     !.children = [i \in DOMAIN keys |-> [key |-> keys[i]]]]
     /\ TvFrame

\* provider.getTreeItem(element)
TvGetTreeItem(element) ==
  /\ element # None
  /\ tvCall' = [NoTvCall EXCEPT !.op = "getTreeItem", !.arg = element,
                  !.item = Some(getTreeItem(The(element).key))]
  /\ UNCHANGED nodes
  /\ TvFrame

\* provider.getParent(element)
TvGetParent(element) ==
  /\ element # None
  /\ tvCall' = [NoTvCall EXCEPT !.op = "getParent", !.arg = element,
                  !.parent = getParent(The(element).key)]
  /\ UNCHANGED nodes
  /\ TvFrame

(***************************************************************************)
(* ftpExplorer: FtpModel                                                   *)
(***************************************************************************)
FtpNames == {"a", "b", "c"}

\* entry.type of a listing entry: directory, plain file, symbolic link
FtpEntryTypes == {"d", "-", "l"}

\* String.prototype.localeCompare on one-letter lower-case names
NameRank(n) == CASE n = "a" -> 1 [] n = "b" -> 2 [] n = "c" -> 3 [] n = "d" -> 4 [] OTHER -> 5

localeCompare(n1, n2) ==
  IF NameRank(n1) < NameRank(n2) THEN -1 ELSE IF NameRank(n1) > NameRank(n2) THEN 1 ELSE 0

\* The listings a server can answer with: entries with distinct names, in the server's order
FtpListings ==
  LET n == IF MaxEntries < Cardinality(FtpNames) THEN MaxEntries ELSE Cardinality(FtpNames)
  IN {l \in SeqsUpTo([name : FtpNames, type : FtpEntryTypes], n) :
        \A i, j \in DOMAIN l : i # j => l[i].name # l[j].name}

\* the comparator of FtpModel.sort; path.basename(resource.fsPath) is the entry name
FtpCompare(n1, n2) ==
  IF n1.isDirectory /\ ~n2.isDirectory THEN -1
  ELSE IF ~n1.isDirectory /\ n2.isDirectory THEN 1
  ELSE localeCompare(n1.name, n2.name)

\* the comparator of getChildren's sort at the workspace root, on [name, type] pairs
RootCompare(x, y) ==
  IF x.type = y.type THEN localeCompare(x.name, y.name)
  ELSE IF x.type = "Directory" THEN -1 ELSE 1

\* Array.prototype.sort(cmp) with the comparator of `which` provider: a stable
\* sort; insertion of each element in turn
Compare(which, x, y) == IF which = "ftp" THEN FtpCompare(x, y) ELSE RootCompare(x, y)

RECURSIVE InsertSorted(_, _, _)
InsertSorted(which, sorted, x) ==
  IF sorted = <<>> THEN <<x>>
  ELSE IF Compare(which, x, sorted[Len(sorted)]) < 0
         THEN Append(InsertSorted(which, SubSeq(sorted, 1, Len(sorted) - 1), x),
                     sorted[Len(sorted)])
         ELSE Append(sorted, x)

RECURSIVE SortBy(_, _)
SortBy(which, arr) ==
  IF arr = <<>> THEN <<>>
  ELSE InsertSorted(which, SortBy(which, SubSeq(arr, 1, Len(arr) - 1)), arr[Len(arr)])

FtpSort(ns) == SortBy("ftp", ns)

\* list.map(entry => ({resource, isDirectory})) under the directory `dir`
FtpMapEntries(dir, list) ==
  [i \in DOMAIN list |->
     [name |-> list[i].name, dir |-> dir, isDirectory |-> list[i].type = "d"]]

\* the directory nodes getChildren is called with, and the resources getContent reads
FtpDirs == {<<>>} \cup {<<n>> : n \in {"a"}}

NewFtpOp(kind, arg, client) ==
  [kind |-> kind, arg |-> arg, client |-> client, pc |-> "connecting",
   nodes |-> <<>>, string |-> <<>>, chunks |-> 0, error |-> "none"]

FtpInit ==
  /\ ftpClients = <<>>
  /\ ftpOps = <<>>

\* roots / getChildren(node) / getContent(resource) up to this.connect():
\* a new Client is constructed and client.connect is called
FtpStart(kind, arg) ==
  /\ Len(ftpOps) < MaxFtpOps
  /\ ftpClients' = Append(ftpClients, [owner |-> Len(ftpOps) + 1, state |-> "connecting"])
  /\ ftpOps' = Append(ftpOps, NewFtpOp(kind, arg, Len(ftpClients) + 1))
  /\ FtpFrame

\* 'ready': connect() resolves and the then-callback issues client.list / client.get
FtpReady(o) ==
  /\ ftpOps[o].pc = "connecting"
  /\ ftpClients' = [ftpClients EXCEPT ![ftpOps[o].client].state = "ready"]
  /\ ftpOps' = [ftpOps EXCEPT ![o].pc =
                  IF ftpOps[o].kind = "getContent" THEN "getting" ELSE "listing"]
  /\ FtpFrame

\* 'error' before 'ready': connect() rejects, and so does the operation
FtpConnectError(o) ==
  /\ ftpOps[o].pc = "connecting"
  /\ ftpClients' = [ftpClients EXCEPT ![ftpOps[o].client].state = "failed"]
  /\ ftpOps' = [ftpOps EXCEPT ![o].pc = "rejected", ![o].error = "Error while connecting"]
  /\ FtpFrame

\* the list callback without error: client.end(), resolve(sort(map(list)))
FtpListDone(o, list) ==
  /\ ftpOps[o].pc = "listing"
  /\ ftpClients' = [ftpClients EXCEPT ![ftpOps[o].client].state = "ended"]
  /\ ftpOps' = [ftpOps EXCEPT ![o].pc = "fulfilled",
                  ![o].nodes = FtpSort(FtpMapEntries(ftpOps[o].arg, list))]
  /\ FtpFrame

\* the list callback with err: return reject(err)
FtpListError(o) ==
  /\ ftpOps[o].pc = "listing"
  /\ ftpOps' = [ftpOps EXCEPT ![o].pc = "rejected", ![o].error = "list"]
  /\ UNCHANGED ftpClients
  /\ FtpFrame

\* the get callback without error: the stream's handlers are installed
FtpGetStream(o) ==
  /\ ftpOps[o].pc = "getting"
  /\ ftpOps' = [ftpOps EXCEPT ![o].pc = "streaming", ![o].string = <<>>]
  /\ UNCHANGED ftpClients
  /\ FtpFrame

\* the get callback with err: return reject(err)
FtpGetError(o) ==
  /\ ftpOps[o].pc = "getting"
  /\ ftpOps' = [ftpOps EXCEPT ![o].pc = "rejected", ![o].error = "get"]
  /\ UNCHANGED ftpClients
  /\ FtpFrame

\* stream 'data': a buffer is appended unless it is null (None)
FtpStreamData(o, buffer) ==
  /\ ftpOps[o].pc = "streaming"
  /\ ftpOps[o].chunks < MaxChunks
  /\ ftpOps' = [ftpOps EXCEPT ![o].chunks = @ + 1,
                  ![o].string = IF buffer = None THEN @ ELSE @ \o <<The(buffer)>>]
  /\ UNCHANGED ftpClients
  /\ FtpFrame

\* stream 'end': client.end(), resolve(string)
FtpStreamEnd(o) ==
  /\ ftpOps[o].pc = "streaming"
  /\ ftpClients' = [ftpClients EXCEPT ![ftpOps[o].client].state = "ended"]
  /\ ftpOps' = [ftpOps EXCEPT ![o].pc = "fulfilled"]
  /\ FtpFrame

NextFtp ==
  \/ FtpStart("roots", <<>>)
  \/ \E d \in FtpDirs : FtpStart("getChildren", d)
  \/ \E d \in FtpDirs : FtpStart("getContent", d \o <<"b">>)
  \/ \E o \in DOMAIN ftpOps : FtpReady(o)
  \/ \E o \in DOMAIN ftpOps : FtpConnectError(o)
  \/ \E o \in DOMAIN ftpOps : \E l \in FtpListings : FtpListDone(o, l)
  \/ \E o \in DOMAIN ftpOps : FtpListError(o)
  \/ \E o \in DOMAIN ftpOps : FtpGetStream(o)
  \/ \E o \in DOMAIN ftpOps : FtpGetError(o)
  \/ \E o \in DOMAIN ftpOps : \E b \in {None, Some("x"), Some("y")} : FtpStreamData(o, b)
  \/ \E o \in DOMAIN ftpOps : FtpStreamEnd(o)

(***************************************************************************)
(* fileExplorer: the local file system and the fs wrappers of namespace _  *)
(***************************************************************************)
FsNames == {"a", "b"}

\* A path is the sequence of its segments below the workspace folder; <<>> is
\* the workspace folder itself, which is a directory throughout.
FsRoot == <<>>

FsUris == {<<n>> : n \in FsNames} \cup {<<n, m>> : n \in FsNames, m \in FsNames}

FsPaths == {FsRoot} \cup FsUris

\* path.dirname
Dirname(p) == IF p = <<>> THEN <<>> ELSE SubSeq(p, 1, Len(p) - 1)

\* path.basename
Basename(p) == p[Len(p)]

IsPrefix(q, p) == Len(q) <= Len(p) /\ SubSeq(p, 1, Len(q)) = q

Absent == [kind |-> "none", content |-> 0]

Dir == [kind |-> "dir", content |-> 0]

File(c) == [kind |-> "file", content |-> c]

FsEntries == {Absent, Dir} \cup {File(c) : c \in 1..MaxContent}

KindOf(f, p) == IF p = FsRoot THEN "dir" ELSE f[p].kind

\* an entry exists only inside a directory
FsWellFormed(f) ==
  \A p \in FsUris : f[p].kind # "none" => KindOf(f, Dirname(p)) = "dir"

FsStates == {f \in [FsUris -> FsEntries] : FsWellFormed(f)}

ChildNames(f, p) == {n \in FsNames : Append(p, n) \in FsUris /\ f[Append(p, n)].kind # "none"}

\* the result of one fs call: an error code ("" when there is none) and the file system after it
Ok(f) == [code |-> "", fs |-> f]

Fail(code, f) == [code |-> code, fs |-> f]

\* the error every call reports when a directory on the way to p is missing or is a file
RECURSIVE WayError(_, _)
WayError(f, p) ==
  IF p = FsRoot \/ KindOf(f, Dirname(p)) = "dir" THEN ""
  ELSE IF WayError(f, Dirname(p)) # "" THEN WayError(f, Dirname(p))
  ELSE IF KindOf(f, Dirname(p)) = "file" THEN "ENOTDIR" ELSE "ENOENT"

\* fs.exists: true when the path resolves; it never reports an error
SysExists(f, p) == WayError(f, p) = "" /\ KindOf(f, p) # "none"

\* fs.stat
SysStat(f, p) ==
  IF WayError(f, p) # "" THEN Fail(WayError(f, p), f)
  ELSE IF KindOf(f, p) = "none" THEN Fail("ENOENT", f) ELSE Ok(f)

\* fs.readdir
SysReaddir(f, p) ==
  IF WayError(f, p) # "" THEN Fail(WayError(f, p), f)
  ELSE IF KindOf(f, p) = "none" THEN Fail("ENOENT", f)
  ELSE IF KindOf(f, p) = "file" THEN Fail("ENOTDIR", f) ELSE Ok(f)

\* fs.readFile
SysReadFile(f, p) ==
  IF WayError(f, p) # "" THEN Fail(WayError(f, p), f)
  ELSE IF KindOf(f, p) = "none" THEN Fail("ENOENT", f)
  ELSE IF KindOf(f, p) = "dir" THEN Fail("EISDIR", f) ELSE Ok(f)

\* fs.writeFile: creates the file or replaces its content
SysWriteFile(f, p, c) ==
  IF WayError(f, p) # "" THEN Fail(WayError(f, p), f)
  ELSE IF KindOf(f, p) = "dir" THEN Fail("EISDIR", f)
  ELSE Ok([f EXCEPT ![p] = File(c)])

\* the file system without p and everything below it
RemoveTree(f, p) == [q \in FsUris |-> IF IsPrefix(p, q) THEN Absent ELSE f[q]]

\* rimraf: removes the tree at p; a missing p is no error
SysRimraf(f, p) ==
  IF WayError(f, p) = "ENOTDIR" THEN Fail("ENOTDIR", f)
  ELSE Ok(RemoveTree(f, p))

\* mkdirp: makes p and the missing directories on the way to it
RECURSIVE SysMkdirp(_, _)
SysMkdirp(f, p) ==
  IF p = FsRoot THEN Ok(f)
  ELSE LET up == SysMkdirp(f, Dirname(p))
       IN IF up.code # "" THEN Fail(IF up.code = "EEXIST" THEN "ENOTDIR" ELSE up.code, up.fs)
          ELSE IF KindOf(up.fs, p) = "dir" THEN up
          ELSE IF KindOf(up.fs, p) = "file" THEN Fail("EEXIST", up.fs)
          ELSE Ok([up.fs EXCEPT ![p] = Dir])

\* the tree at old moved to new (replacing what was there)
MoveTree(f, old, new) ==
  [q \in FsUris |->
     IF IsPrefix(new, q)
       THEN LET src == old \o SubSeq(q, Len(new) + 1, Len(q))
            IN IF src \in FsUris THEN f[src] ELSE Absent
     ELSE IF IsPrefix(old, q) THEN Absent
     ELSE f[q]]

\* fs.rename
SysRename(f, old, new) ==
  IF WayError(f, old) # "" THEN Fail(WayError(f, old), f)
  ELSE IF KindOf(f, old) = "none" THEN Fail("ENOENT", f)
  ELSE IF WayError(f, new) # "" THEN Fail(WayError(f, new), f)
  ELSE IF old = new THEN Ok(f)
  ELSE IF IsPrefix(old, new) THEN Fail("EINVAL", f)
  ELSE IF KindOf(f, old) = "dir" /\ KindOf(f, new) = "file" THEN Fail("ENOTDIR", f)
  ELSE IF KindOf(f, old) = "file" /\ KindOf(f, new) = "dir" THEN Fail("EISDIR", f)
  ELSE IF KindOf(f, new) = "dir" /\ ChildNames(f, new) # {} THEN Fail("ENOTEMPTY", f)
  ELSE Ok(MoveTree(f, old, new))

\* a rename the bounded path space can hold: no entry lands below the deepest level
RenameFits(f, old, new) ==
  \A q \in FsUris :
    IsPrefix(old, q) /\ f[q].kind # "none" =>
      new \o SubSeq(q, Len(old) + 1, Len(q)) \in FsUris

\* fs.unlink; unlinking a directory is EISDIR on Linux and EPERM elsewhere
SysUnlink(f, p, dirCode) ==
  IF WayError(f, p) # "" THEN Fail(WayError(f, p), f)
  ELSE IF KindOf(f, p) = "none" THEN Fail("ENOENT", f)
  ELSE IF KindOf(f, p) = "dir" THEN Fail(dirCode, f)
  ELSE Ok([f EXCEPT ![p] = Absent])

\* the permission failures any call but fs.exists can meet, whatever the tree holds
Denials == {"", "EACCES", "EPERM"}

Denied(deny, f, r) == IF deny # "" THEN Fail(deny, f) ELSE r

\* massageError: the FileSystemError for an OS error code, or the error itself ("raw")
massageError(code) ==
  IF code = "ENOENT" THEN "FileNotFound"
  ELSE IF code = "EISDIR" THEN "FileIsADirectory"
  ELSE IF code = "EEXIST" THEN "FileExists"
  ELSE IF code = "EPERM" \/ code = "EACCESS" THEN "NoPermissions"
  ELSE "raw"

\* FileStat.type for what fs.stat found
FileType(kind) == IF kind = "file" THEN "File" ELSE IF kind = "dir" THEN "Directory" ELSE "Unknown"

(***************************************************************************)
(* fileExplorer: FileSystemProvider                                        *)
(***************************************************************************)
Perms(S) == {q \in [1..Cardinality(S) -> S] : \A i, j \in DOMAIN q : i # j => q[i] # q[j]}

IdleCall ==
  [op |-> "idle", uri |-> FsRoot, uri2 |-> FsRoot, content |-> 0, create |-> FALSE,
   overwrite |-> FALSE, recursive |-> FALSE, element |-> FALSE, pc |-> "idle",
   names |-> <<>>, out |-> <<>>, data |-> 0, status |-> "idle", error |-> "",
   oscode |-> "", writes |-> 0]

NewCall(op, pc) == [IdleCall EXCEPT !.op = op, !.pc = pc, !.status = "pending"]

\* the promise is fulfilled
Fulfil(call) == [call EXCEPT !.pc = "done", !.status = "ok"]

\* handleResult with an error: the promise is rejected with massageError(error)
Reject(call, code) ==
  [call EXCEPT !.pc = "done", !.status = "error", !.error = massageError(code), !.oscode = code]

\* throw FileSystemError.X() ahead of any fs call that writes
Throw(call, error) ==
  [call EXCEPT !.pc = "done", !.status = "error", !.error = error, !.oscode = ""]

\* no watcher, nothing notified and nothing fired
NoWatch ==
  /\ fsWatcher = None
  /\ fsQueue = <<>>
  /\ fsChecks = {}
  /\ fsFired = <<>>

FsInit ==
  /\ fs \in FsStates
  /\ fsCalls = [c \in {1} |-> IdleCall]
  /\ fsBefore = [c \in {1} |-> fs]
  /\ NoWatch

\* the file system while another provider is studied: an empty workspace folder
FsUnused ==
  /\ fs = [p \in FsUris |-> Absent]
  /\ fsCalls = [c \in {1} |-> IdleCall]
  /\ fsBefore = [c \in {1} |-> fs]
  /\ NoWatch

\* a call begins: its arguments are recorded and it runs up to its first await
FsBegin(c, call) ==
  /\ fsCalls[c].op = "idle"
  /\ fsCalls' = [fsCalls EXCEPT ![c] = call]
  /\ fsBefore' = [fsBefore EXCEPT ![c] = fs]
  /\ UNCHANGED <<fs, watchVars>>
  /\ FsFrame

\* what a finished directory read hands back: readDirectory's pairs as they are,
\* getChildren(element) mapped in readdir order, getChildren() sorted and mapped
Listing(call, pairs) ==
  IF call.op = "getChildren" /\ ~call.element THEN SortBy("root", pairs) ELSE pairs

\* _readDirectory: await _.readdir(uri.fsPath), in the order the directory yields
FsReaddir(c, order, deny) ==
  LET call == fsCalls[c]
      r == Denied(deny, fs, SysReaddir(fs, call.uri))
  IN /\ call.pc = "readdir" /\ call.status = "pending"
     /\ order \in Perms(ChildNames(fs, call.uri))
     /\ fsCalls' = [fsCalls EXCEPT ![c] =
          IF r.code # "" THEN Reject(call, r.code)
          ELSE IF order = <<>> THEN Fulfil([call EXCEPT !.out = Listing(call, <<>>)])
          ELSE [call EXCEPT !.pc = "statChild", !.names = order]]
     /\ UNCHANGED <<fs, fsBefore, watchVars>>
     /\ FsFrame

\* _readDirectory: await this._stat(path.join(uri.fsPath, child)) for the next child
FsStatChild(c, deny) ==
  LET call == fsCalls[c]
      child == Append(call.uri, Head(call.names))
      r == Denied(deny, fs, SysStat(fs, child))
      pairs == Append(call.out, [name |-> Head(call.names), type |-> FileType(KindOf(fs, child))])
  IN /\ call.pc = "statChild" /\ call.status = "pending"
     /\ fsCalls' = [fsCalls EXCEPT ![c] =
          IF r.code # "" THEN Reject([call EXCEPT !.out = <<>>], r.code)
          ELSE IF Tail(call.names) = <<>>
            THEN Fulfil([call EXCEPT !.names = <<>>, !.out = Listing(call, pairs)])
          ELSE [call EXCEPT !.names = Tail(call.names), !.out = pairs]]
     /\ UNCHANGED <<fs, fsBefore, watchVars>>
     /\ FsFrame

\* _stat: await _.stat(path)
FsStat(c, deny) ==
  LET call == fsCalls[c]
      r == Denied(deny, fs, SysStat(fs, call.uri))
  IN /\ call.pc = "stat" /\ call.status = "pending"
     /\ fsCalls' = [fsCalls EXCEPT ![c] =
          IF r.code # "" THEN Reject(call, r.code)
          ELSE Fulfil([call EXCEPT !.out =
                         <<[name |-> "", type |-> FileType(KindOf(fs, call.uri))]>>])]
     /\ UNCHANGED <<fs, fsBefore, watchVars>>
     /\ FsFrame

\* _.readfile(uri.fsPath)
FsReadFile(c, deny) ==
  LET call == fsCalls[c]
      r == Denied(deny, fs, SysReadFile(fs, call.uri))
  IN /\ call.pc = "readFile" /\ call.status = "pending"
     /\ fsCalls' = [fsCalls EXCEPT ![c] =
          IF r.code # "" THEN Reject(call, r.code)
          ELSE Fulfil([call EXCEPT !.data = fs[call.uri].content])]
     /\ UNCHANGED <<fs, fsBefore, watchVars>>
     /\ FsFrame

\* whether the watcher w reports what happens to p: p is an entry of the
\* watched directory or, with options.recursive, lies anywhere below it
Watched(w, p) ==
  /\ p # w.uri
  /\ IsPrefix(w.uri, p)
  /\ w.recursive \/ Dirname(p) = w.uri

\* the paths fs.watch raises a notification for when the file system goes from f to g
Notified(f, g) ==
  IF fsWatcher = None THEN {}
  ELSE {p \in FsUris : Watched(The(fsWatcher), p) /\ f[p] # g[p]}

\* the notifications raised so far and still known: each is in the queue, with
\* the callbacks that wait, or fired
NotesSoFar == Len(fsQueue) + Cardinality(fsChecks) + Len(fsFired)

\* the notification for p: 'rename' when the entry appears or disappears,
\* 'change' when its content changes; filename is relative to the watched
\* directory; `cause` and `was` keep what happened to the entry and what it was
Note(f, g, p, id) ==
  [id |-> id,
   was |-> f[p].kind,
   event |-> IF f[p].kind = g[p].kind THEN "change" ELSE "rename",
   filename |-> SubSeq(p, Len(The(fsWatcher).uri) + 1, Len(p)),
   dir |-> The(fsWatcher).uri,
   cause |-> IF g[p].kind = "none" THEN "deleted"
             ELSE IF f[p].kind = "none" THEN "created" ELSE "changed"]

\* the call issues an fs call that writes; r is that call's result
FsWrites(c, r, next) ==
  /\ fs' = r.fs
  /\ \E order \in Perms(Notified(fs, r.fs)) :
       fsQueue' = fsQueue \o [i \in DOMAIN order |-> Note(fs, r.fs, order[i], NotesSoFar + i)]
  /\ UNCHANGED <<fsWatcher, fsChecks, fsFired>>
  /\ fsCalls' = [fsCalls EXCEPT ![c] =
       IF r.code # "" THEN Reject([fsCalls[c] EXCEPT !.writes = @ + 1], r.code)
       ELSE [next EXCEPT !.writes = @ + 1]]
  /\ UNCHANGED fsBefore
  /\ FsFrame

\* createDirectory: _.mkdir(uri.fsPath)
FsCreateDirectory(c, deny) ==
  LET call == fsCalls[c]
  IN /\ call.op = "createDirectory" /\ call.pc = "mkdir" /\ call.status = "pending"
     /\ FsWrites(c, Denied(deny, fs, SysMkdirp(fs, call.uri)), Fulfil(call))

\* delete: _.rmrf(uri.fsPath) when recursive, _.unlink(uri.fsPath) otherwise
FsDelete(c, deny, dirCode) ==
  LET call == fsCalls[c]
  IN /\ call.pc = "delete" /\ call.status = "pending"
     /\ FsWrites(c, Denied(deny, fs, IF call.recursive THEN SysRimraf(fs, call.uri)
                                  ELSE SysUnlink(fs, call.uri, dirCode)),
                 Fulfil(call))

\* _writeFile with the create test left out: a missing file is always created
WriteFilePrecheckAlwaysCreate(call, exists) ==
  IF ~exists THEN [call EXCEPT !.pc = "mkdir"]
  ELSE IF ~call.overwrite THEN Throw(call, "FileExists")
  ELSE [call EXCEPT !.pc = "write"]

\* _writeFile after `await _.exists(uri.fsPath)`: the create / overwrite tests
WriteFilePrecheck(call, exists) ==
  IF ~exists
    THEN IF ~call.create THEN Throw(call, "FileNotFound") ELSE [call EXCEPT !.pc = "mkdir"]
  ELSE IF ~call.overwrite THEN Throw(call, "FileExists")
  ELSE [call EXCEPT !.pc = "write"]

\* _rename after `await _.exists(newUri.fsPath)`: the overwrite test
RenamePrecheck(call, exists) ==
  IF exists
    THEN IF ~call.overwrite THEN Throw(call, "FileExists") ELSE [call EXCEPT !.pc = "rmrf"]
  ELSE [call EXCEPT !.pc = "parentExists"]

\* _writeFile / _rename: the first await, _.exists on the target
FsExists(c) ==
  LET call == fsCalls[c]
  IN /\ call.pc = "exists" /\ call.status = "pending"
     /\ fsCalls' = [fsCalls EXCEPT ![c] =
          IF call.op = "writeFile" THEN WriteFilePrecheck(call, SysExists(fs, call.uri))
          ELSE RenamePrecheck(call, SysExists(fs, call.uri2))]
     /\ UNCHANGED <<fs, fsBefore, watchVars>>
     /\ FsFrame

\* _writeFile: await _.mkdir(path.dirname(uri.fsPath))
FsWriteMkdir(c, deny) ==
  LET call == fsCalls[c]
  IN /\ call.op = "writeFile" /\ call.pc = "mkdir" /\ call.status = "pending"
     /\ FsWrites(c, Denied(deny, fs, SysMkdirp(fs, Dirname(call.uri))),
                 [call EXCEPT !.pc = "write"])

\* _writeFile: return _.writefile(uri.fsPath, content)
FsWriteFile(c, deny) ==
  LET call == fsCalls[c]
  IN /\ call.op = "writeFile" /\ call.pc = "write" /\ call.status = "pending"
     /\ FsWrites(c, Denied(deny, fs, SysWriteFile(fs, call.uri, call.content)), Fulfil(call))

\* _rename: await _.rmrf(newUri.fsPath)
FsRenameRmrf(c, deny) ==
  LET call == fsCalls[c]
  IN /\ call.op = "rename" /\ call.pc = "rmrf" /\ call.status = "pending"
     /\ FsWrites(c, Denied(deny, fs, SysRimraf(fs, call.uri2)),
                 [call EXCEPT !.pc = "parentExists"])

\* _rename: await _.exists(path.dirname(newUri.fsPath))
FsRenameParentExists(c) ==
  LET call == fsCalls[c]
  IN /\ call.op = "rename" /\ call.pc = "parentExists" /\ call.status = "pending"
     /\ fsCalls' = [fsCalls EXCEPT ![c].pc =
          IF SysExists(fs, Dirname(call.uri2)) THEN "rename" ELSE "mkdir"]
     /\ UNCHANGED <<fs, fsBefore, watchVars>>
     /\ FsFrame

\* _rename: await _.mkdir(path.dirname(newUri.fsPath))
FsRenameMkdir(c, deny) ==
  LET call == fsCalls[c]
  IN /\ call.op = "rename" /\ call.pc = "mkdir" /\ call.status = "pending"
     /\ FsWrites(c, Denied(deny, fs, SysMkdirp(fs, Dirname(call.uri2))),
                 [call EXCEPT !.pc = "rename"])

\* _rename: return _.rename(oldUri.fsPath, newUri.fsPath)
FsRenameFinal(c, deny) ==
  LET call == fsCalls[c]
  IN /\ call.op = "rename" /\ call.pc = "rename" /\ call.status = "pending"
     /\ RenameFits(fs, call.uri, call.uri2)
     /\ FsWrites(c, Denied(deny, fs, SysRename(fs, call.uri, call.uri2)), Fulfil(call))

\* the caller has taken the settled promise; the next call can start
FsReturn(c) ==
  /\ fsCalls[c].pc = "done"
  /\ fsCalls' = [fsCalls EXCEPT ![c] = IdleCall]
  /\ fsBefore' = [fsBefore EXCEPT ![c] = fs]
  /\ UNCHANGED <<fs, watchVars>>
  /\ FsFrame

\* watch(uri, options): fs.watch on the directory
FsWatch(uri, recursive) ==
  /\ fsWatcher = None
  /\ KindOf(fs, uri) = "dir" /\ WayError(fs, uri) = ""
  /\ fsWatcher' = Some([uri |-> uri, recursive |-> recursive])
  /\ UNCHANGED <<fs, fsCalls, fsBefore, fsQueue, fsChecks, fsFired>>
  /\ FsFrame

\* the Disposable watch() returned is disposed: watcher.close(), after which no
\* callback is called; the callbacks that await go on
FsWatchDispose ==
  /\ fsWatcher # None
  /\ fsWatcher' = None
  /\ fsQueue' = <<>>
  /\ UNCHANGED <<fs, fsCalls, fsBefore, fsChecks, fsFired>>
  /\ FsFrame

\* _onDidChangeFile.fire([{type, uri}]) of the callback for the notification
FileChangeEvent(note, type) ==
  [type |-> type, uri |-> note.dir \o note.filename, note |-> note.id, cause |-> note.cause,
   was |-> note.was]

\* the callback of fs.watch is called with the oldest notification: a 'change'
\* fires Changed at once, anything else awaits _.exists(filepath)
FsWatchCallback ==
  /\ fsQueue # <<>>
  /\ fsQueue' = Tail(fsQueue)
  /\ IF Head(fsQueue).event = "change"
       THEN /\ fsFired' = Append(fsFired, FileChangeEvent(Head(fsQueue), "Changed"))
            /\ UNCHANGED fsChecks
       ELSE /\ fsChecks' = fsChecks \cup {Head(fsQueue)}
            /\ UNCHANGED fsFired
  /\ UNCHANGED <<fs, fsCalls, fsBefore, fsWatcher>>
  /\ FsFrame

\* _.exists(filepath) of a waiting callback resolves with what the file system
\* holds now, and the callback fires Created or Deleted
FsWatchExists(note) ==
  /\ note \in fsChecks
  /\ fsChecks' = fsChecks \ {note}
  /\ fsFired' = Append(fsFired,
       FileChangeEvent(note, IF SysExists(fs, note.dir \o note.filename)
                               THEN "Created" ELSE "Deleted"))
  /\ UNCHANGED <<fs, fsCalls, fsBefore, fsWatcher, fsQueue>>
  /\ FsFrame

FsCallers == DOMAIN fsCalls

NextFs ==
  \* stat(uri)
  \/ \E c \in FsCallers, u \in FsPaths :
       FsBegin(c, [NewCall("stat", "stat") EXCEPT !.uri = u])
  \* readDirectory(uri)
  \/ \E c \in FsCallers, u \in FsPaths :
       FsBegin(c, [NewCall("readDirectory", "readdir") EXCEPT !.uri = u])
  \* createDirectory(uri)
  \/ \E c \in FsCallers, u \in FsUris :
       FsBegin(c, [NewCall("createDirectory", "mkdir") EXCEPT !.uri = u])
  \* readFile(uri)
  \/ \E c \in FsCallers, u \in FsUris :
       FsBegin(c, [NewCall("readFile", "readFile") EXCEPT !.uri = u])
  \* writeFile(uri, content, {create, overwrite})
  \/ \E c \in FsCallers, u \in FsUris, d \in 1..MaxContent, cr \in BOOLEAN, ov \in BOOLEAN :
       FsBegin(c, [NewCall("writeFile", "exists") EXCEPT !.uri = u, !.content = d,
                     !.create = cr, !.overwrite = ov])
  \* delete(uri, {recursive})
  \/ \E c \in FsCallers, u \in FsUris, rec \in BOOLEAN :
       FsBegin(c, [NewCall("delete", "delete") EXCEPT !.uri = u, !.recursive = rec])
  \* rename(oldUri, newUri, {overwrite})
  \/ \E c \in FsCallers, u \in FsUris, v \in FsUris, ov \in BOOLEAN :
       FsBegin(c, [NewCall("rename", "exists") EXCEPT !.uri = u, !.uri2 = v,
                     !.overwrite = ov])
  \* getChildren(element) for a directory entry
  \/ \E c \in FsCallers, u \in FsUris :
       FsBegin(c, [NewCall("getChildren", "readdir") EXCEPT !.uri = u, !.element = TRUE])
  \* getChildren() at the root; without a workspace folder of scheme 'file' it
  \* returns []
  \/ \E c \in FsCallers, wf \in BOOLEAN :
       FsBegin(c, IF wf THEN [NewCall("getChildren", "readdir") EXCEPT !.uri = FsRoot]
                  ELSE Fulfil(NewCall("getChildren", "readdir")))
  \/ \E c \in FsCallers, deny \in Denials :
       \E order \in Perms(ChildNames(fs, fsCalls[c].uri)) : FsReaddir(c, order, deny)
  \/ \E c \in FsCallers, deny \in Denials : FsStatChild(c, deny)
  \/ \E c \in FsCallers, deny \in Denials : FsStat(c, deny)
  \/ \E c \in FsCallers, deny \in Denials : FsReadFile(c, deny)
  \/ \E c \in FsCallers, deny \in Denials : FsCreateDirectory(c, deny)
  \/ \E c \in FsCallers, deny \in Denials, dc \in {"EISDIR", "EPERM"} : FsDelete(c, deny, dc)
  \/ \E c \in FsCallers : FsExists(c)
  \/ \E c \in FsCallers, deny \in Denials : FsWriteMkdir(c, deny)
  \/ \E c \in FsCallers, deny \in Denials : FsWriteFile(c, deny)
  \/ \E c \in FsCallers, deny \in Denials : FsRenameRmrf(c, deny)
  \/ \E c \in FsCallers : FsRenameParentExists(c)
  \/ \E c \in FsCallers, deny \in Denials : FsRenameMkdir(c, deny)
  \/ \E c \in FsCallers, deny \in Denials : FsRenameFinal(c, deny)
  \/ \E c \in FsCallers : FsReturn(c)

\* the paths the calls made next to a watcher work on
FsWatchUris == {<<"a">>, <<"a", "a">>}

\* the workspace folder the watcher is studied on: one entry, `a`, a file or
\* a directory that holds at most the entry `a`
FsWatchInit ==
  /\ fs \in {f \in FsStates : /\ f[<<"a">>] # Absent
                               /\ \A p \in FsUris \ FsWatchUris : f[p] = Absent}
  /\ fsCalls = [c \in {1} |-> IdleCall]
  /\ fsBefore = [c \in {1} |-> fs]
  /\ NoWatch

\* the file explorer with a watcher: the calls that delete and write files
\* (started while a watcher is there and fewer than MaxNotes notifications
\* have been raised) and the callback of the watcher
NextFsWatch ==
  \/ \E u \in {FsRoot, <<"a">>}, rec \in BOOLEAN : FsWatch(u, rec)
  \/ FsWatchDispose
  \/ \E c \in FsCallers, u \in FsWatchUris, rec \in BOOLEAN :
       /\ fsWatcher # None /\ NotesSoFar < MaxNotes
       /\ FsBegin(c, [NewCall("delete", "delete") EXCEPT !.uri = u, !.recursive = rec])
  \/ \E c \in FsCallers, u \in FsWatchUris, d \in 1..MaxContent :
       /\ fsWatcher # None /\ NotesSoFar < MaxNotes
       /\ FsBegin(c, [NewCall("writeFile", "exists") EXCEPT !.uri = u, !.content = d,
                        !.create = TRUE, !.overwrite = TRUE])
  \/ \E c \in FsCallers : FsDelete(c, "", "EISDIR")
  \/ \E c \in FsCallers : FsExists(c)
  \/ \E c \in FsCallers : FsWriteMkdir(c, "")
  \/ \E c \in FsCallers : FsWriteFile(c, "")
  \/ \E c \in FsCallers : FsReturn(c)
  \/ FsWatchCallback
  \/ \E note \in fsChecks : FsWatchExists(note)

\* the path two callers write at the same time
FsWriteUris == {<<"a">>}

\* the workspace folder two callers write to: empty, or the file `a` alone
FsWritersInit ==
  /\ fs \in {f \in FsStates : \A p \in FsUris \ FsWriteUris : f[p] = Absent}
  /\ fsCalls = [c \in {1, 2} |-> IdleCall]
  /\ fsBefore = [c \in {1, 2} |-> fs]
  /\ NoWatch

\* two callers of writeFile: each call runs from one await to the next, and
\* the steps of the two calls interleave in any order
NextFsWriters ==
  \/ \E c \in FsCallers, u \in FsWriteUris, d \in 1..MaxContent, cr \in BOOLEAN, ov \in BOOLEAN :
       FsBegin(c, [NewCall("writeFile", "exists") EXCEPT !.uri = u, !.content = d,
                     !.create = cr, !.overwrite = ov])
  \/ \E c \in FsCallers : FsExists(c)
  \/ \E c \in FsCallers, deny \in Denials : FsWriteMkdir(c, deny)
  \/ \E c \in FsCallers, deny \in Denials : FsWriteFile(c, deny)
  \/ \E c \in FsCallers : FsReturn(c)

(***************************************************************************)
(* jsonOutline: the document text and the jsonc-parser functions the       *)
(* provider calls (parseTree, getLocation, findNodeAtLocation).  A text is *)
(* a sequence of characters; offsets count characters from 0.              *)
(***************************************************************************)
DQ == "\""

Str(chars) == <<DQ>> \o chars \o <<DQ>>

\* text.substring(from, to)
Slice(text, from, to) == SubSeq(text, from + 1, to)

\* the first offset >= i where the text ends or where the character is one of
\* `chars` (stop = TRUE) or none of them (stop = FALSE)
RECURSIVE ScanRun(_, _, _, _)
ScanRun(text, i, chars, stop) ==
  IF i >= Len(text) \/ (text[i + 1] \in chars) = stop THEN i
  ELSE ScanRun(text, i + 1, chars, stop)

MkToken(kind, offset, length, value, err) ==
  [kind |-> kind, offset |-> offset, length |-> length, value |-> value, err |-> err]

\* scanner.scan() at offset pos: punctuation, a string up to the closing quote
\* (to the end of the text when unterminated, a scan error), a number (the
\* digits written are 1, 2 and 3), or a run of other characters (an Unknown
\* token)
ScanToken(text, pos) ==
  IF pos >= Len(text) THEN MkToken("EOF", Len(text), 0, <<>>, FALSE)
  ELSE IF text[pos + 1] \in {"{", "}", "[", "]", ":", ","}
    THEN MkToken(text[pos + 1], pos, 1, <<>>, FALSE)
  ELSE IF text[pos + 1] = DQ
    THEN LET close == ScanRun(text, pos + 1, {DQ}, TRUE)
         IN IF close >= Len(text)
              THEN MkToken("string", pos, Len(text) - pos, Slice(text, pos + 1, Len(text)), TRUE)
              ELSE MkToken("string", pos, close + 1 - pos, Slice(text, pos + 1, close), FALSE)
  ELSE IF text[pos + 1] \in {"1", "2", "3"}
    THEN LET end == ScanRun(text, pos, {"1", "2", "3"}, FALSE)
         IN MkToken("number", pos, end - pos, Slice(text, pos, end), FALSE)
  ELSE LET end == ScanRun(text, pos, {"{", "}", "[", "]", ":", ",", DQ}, TRUE)
       IN MkToken("unknown", pos, end - pos, Slice(text, pos, end), TRUE)

\* every token of the text up to the EOF token, which ends the sequence.  (The
\* token is bound as a value, here and below, so that it is computed once.)
RECURSIVE Tokens(_, _)
Tokens(text, pos) ==
  The({IF t.kind = "EOF" THEN <<t>> ELSE <<t>> \o Tokens(text, t.offset + t.length) :
        t \in {ScanToken(text, pos)}})

(***************************************************************************)
(* visit(text, visitor): the parser state is the index of the current      *)
(* token, the visitor events emitted so far and the number of errors.      *)
(* scanNext() skips Unknown tokens (each an InvalidSymbol error), so the   *)
(* parser works on the tokens that are left; a scan error of a token is an *)
(* error of the visit.                                                     *)
(***************************************************************************)
Ev(t, tok) == [t |-> t, offset |-> tok.offset, length |-> tok.length,
               value |-> tok.value, kind |-> tok.kind]

Cur(toks, st) == toks[st.i]

\* scanNext(): the EOF token stays current once reached
Advance(toks, st) == [st EXCEPT !.i = IF toks[st.i].kind = "EOF" THEN @ ELSE @ + 1]

Emit(st, e) == [st EXCEPT !.ev = Append(@, e)]

\* the loop of handleError(): skip through the first token of `after`, or up
\* to the first of `until`, or to the end of the text
RECURSIVE Skip(_, _, _, _)
Skip(toks, st, after, until) ==
  IF Cur(toks, st).kind = "EOF" THEN st
  ELSE IF Cur(toks, st).kind \in after THEN Advance(toks, st)
  ELSE IF Cur(toks, st).kind \in until THEN st
  ELSE The({Skip(toks, next, after, until) : next \in {Advance(toks, st)}})

\* handleError(error, skipUntilAfter, skipUntil)
HandleError(toks, st, after, until) ==
  IF after \cup until = {} THEN [st EXCEPT !.errs = @ + 1]
  ELSE The({Skip(toks, e, after, until) : e \in {[st EXCEPT !.errs = @ + 1]}})

RECURSIVE ParseValue(_, _)
RECURSIVE ElementsLoop(_, _, _, _)

\* parseProperty() after the key: the colon and the value
PropertyColon(toks, named) ==
  IF Cur(toks, named).kind = ":"
    THEN The({[ok |-> TRUE,
               st |-> IF val.ok THEN val.st ELSE HandleError(toks, val.st, {}, {"}", ","})] :
               val \in {ParseValue(toks, Advance(toks, Emit(named, Ev("sep", Cur(toks, named)))))}})
    ELSE [ok |-> TRUE, st |-> HandleError(toks, named, {}, {"}", ","})]

\* parseProperty(): the key, the colon and the value of one property
ParseProperty(toks, st) ==
  IF Cur(toks, st).kind # "string"
    THEN [ok |-> FALSE, st |-> HandleError(toks, st, {}, {"}", ","})]
    ELSE The({PropertyColon(toks, named) :
               named \in {Advance(toks, Emit(st, Ev("prop", Cur(toks, st))))}})

\* the head of the loops of parseObject() and parseArray(): a comma, or the
\* error of a missing one
CommaStep(toks, st, needsComma) ==
  IF Cur(toks, st).kind = ","
    THEN The({Advance(toks, Emit(c, Ev("sep", Cur(toks, c)))) :
               c \in {IF needsComma THEN st ELSE HandleError(toks, st, {}, {})}})
  ELSE IF needsComma THEN HandleError(toks, st, {}, {})
  ELSE st

\* one round of the while loop of parseObject() (close = "}") or parseArray()
\* (close = "]"): a property or a value; if it does not parse, ValueExpected
ElementStep(toks, st, needsComma, close) ==
  The({IF r.ok THEN r.st ELSE HandleError(toks, r.st, {}, {close, ","}) :
        r \in {The({IF close = "}" THEN ParseProperty(toks, c) ELSE ParseValue(toks, c) :
                     c \in {CommaStep(toks, st, needsComma)}})}})

\* the while loop of parseObject() or parseArray()
ElementsLoop(toks, st, needsComma, close) ==
  IF Cur(toks, st).kind \in {close, "EOF"} THEN st
  ELSE The({ElementsLoop(toks, after, TRUE, close) :
             after \in {ElementStep(toks, st, needsComma, close)}})

\* the end of parseObject() and parseArray(): the end event, then the closing
\* token or the error of a missing one
CloseValue(toks, body, endEvent, close) ==
  [ok |-> TRUE,
   st |-> IF Cur(toks, body).kind # close
            THEN HandleError(toks, Emit(body, Ev(endEvent, Cur(toks, body))), {close}, {})
            ELSE Advance(toks, Emit(body, Ev(endEvent, Cur(toks, body))))]

\* parseValue(): parseArray(), parseObject(), parseString(true) or parseLiteral()
ParseValue(toks, st) ==
  IF Cur(toks, st).kind = "{"
    THEN The({CloseValue(toks, body, "objEnd", "}") :
               body \in {The({ElementsLoop(toks, open, FALSE, "}") :
                               open \in {Advance(toks, Emit(st, Ev("objBegin", Cur(toks, st))))}})}})
  ELSE IF Cur(toks, st).kind = "["
    THEN The({CloseValue(toks, body, "arrEnd", "]") :
               body \in {The({ElementsLoop(toks, open, FALSE, "]") :
                               open \in {Advance(toks, Emit(st, Ev("arrBegin", Cur(toks, st))))}})}})
  ELSE IF Cur(toks, st).kind \in {"string", "number"}
    THEN [ok |-> TRUE, st |-> Advance(toks, Emit(st, Ev("lit", Cur(toks, st))))]
  ELSE [ok |-> FALSE, st |-> st]

\* visit() on the tokens scanNext() lets through: ValueExpected for no value,
\* EndOfFileExpected for more than one
VisitParse(toks, scanErrors) ==
  IF toks[1].kind = "EOF"
    THEN HandleError(toks, [i |-> 1, ev |-> <<>>, errs |-> scanErrors], {}, {})
    ELSE The({IF ~val.ok \/ Cur(toks, val.st).kind # "EOF"
                THEN HandleError(toks, val.st, {}, {})
                ELSE val.st :
               val \in {ParseValue(toks, [i |-> 1, ev |-> <<>>, errs |-> scanErrors])}})

\* visit(text, visitor): the events the visitor receives and the errors reported
Visit(text) ==
  The({VisitParse(SelectSeq(all, LAMBDA t : t.kind # "unknown"),
                  Len(SelectSeq(all, LAMBDA t : t.err))) :
        all \in {Tokens(text, 0)}})

(***************************************************************************)
(* parseTree(text): the nodes of the tree in creation order, each with the *)
(* index of its parent and of its children.  nodes[1] is the artificial    *)
(* root the library collects the top-level value in; `root` is the index   *)
(* of the returned node, 0 when there is none (and for the provider's      *)
(* `tree = null`).  A string or number node has no `children` property.    *)
(***************************************************************************)
MkNode(type, offset, length, value, parent) ==
  [type |-> type, offset |-> offset, length |-> length, value |-> value,
   parent |-> parent, children |-> <<>>]

NoTree == [nodes |-> <<>>, root |-> 0]

\* onValue(valueNode): push the node onto the current parent's children
OnValue(ps, n) ==
  LET k == Len(ps.nodes) + 1
  IN [ps EXCEPT !.nodes = Append([@ EXCEPT ![ps.cur].children = Append(@, k)],
                                 [n EXCEPT !.parent = ps.cur])]

\* ensurePropertyComplete(endOffset)
EnsurePropertyComplete(ps, endOffset) ==
  IF ps.nodes[ps.cur].type = "property"
    THEN [ps EXCEPT !.nodes[ps.cur].length = endOffset - ps.nodes[ps.cur].offset,
                    !.cur = ps.nodes[ps.cur].parent]
    ELSE ps

\* close the current container: set its length and return to its parent
CloseContainer(ps, e) ==
  The({EnsurePropertyComplete(closed, e.offset + e.length) :
        closed \in {[ps EXCEPT !.nodes[ps.cur].length = e.offset + e.length - ps.nodes[ps.cur].offset,
                               !.cur = ps.nodes[ps.cur].parent]}})

\* the visitor parseTree() passes to visit()
TreeVisitor(ps, e) ==
  IF e.t \in {"objBegin", "arrBegin"}
    THEN [OnValue(ps, MkNode(IF e.t = "objBegin" THEN "object" ELSE "array",
                             e.offset, -1, <<>>, 0))
            EXCEPT !.cur = Len(ps.nodes) + 1]
  ELSE IF e.t = "prop"
    THEN The({OnValue(inProp, MkNode("string", e.offset, e.length, e.value, 0)) :
               inProp \in {[OnValue(ps, MkNode("property", e.offset, -1, <<>>, 0))
                              EXCEPT !.cur = Len(ps.nodes) + 1]}})
  ELSE IF e.t = "objEnd"
    THEN The({CloseContainer(done, e) : done \in {EnsurePropertyComplete(ps, e.offset + e.length)}})
  ELSE IF e.t = "arrEnd"
    THEN CloseContainer(ps, e)
  ELSE IF e.t = "lit"
    THEN The({EnsurePropertyComplete(added, e.offset + e.length) :
               added \in {OnValue(ps, MkNode(e.kind, e.offset, e.length, e.value, 0))}})
  ELSE IF e.value = <<>> /\ e.kind = "," /\ ps.nodes[ps.cur].type = "property"
    THEN EnsurePropertyComplete(ps, e.offset)
  ELSE ps

RECURSIVE TreeFold(_, _, _)
TreeFold(ev, k, ps) ==
  IF k > Len(ev) THEN ps
  ELSE The({TreeFold(ev, k + 1, next) : next \in {TreeVisitor(ps, ev[k])}})

\* parseTree(text): the first child of the artificial root, its `parent` deleted
parseTree(text) ==
  The({IF built.nodes[1].children = <<>> THEN NoTree
       ELSE [nodes |-> [built.nodes EXCEPT ![built.nodes[1].children[1]].parent = 0],
             root |-> built.nodes[1].children[1]] :
        built \in {The({TreeFold(ev, 1, [nodes |-> <<MkNode("array", -1, -1, <<>>, 0)>>,
                                          cur |-> 1]) :
                         ev \in {Visit(text).ev}})}})

(***************************************************************************)
(* getLocation(text, position).path: a path is a sequence of segments, a   *)
(* property name or an array index                                         *)
(***************************************************************************)
NameSeg(name) == [isName |-> TRUE, name |-> name, index |-> 0]

IndexSeg(i) == [isName |-> FALSE, name |-> <<>>, index |-> i]

Pop(segs) == SubSeq(segs, 1, Len(segs) - 1)

SetLast(segs, seg) == [segs EXCEPT ![Len(segs)] = seg]

\* the visitor of getLocation(): the segments after the event, and whether
\* the callback has reached the position and ended the visit
LocationVisitor(e, position, segs) ==
  IF e.t \in {"objBegin", "arrBegin"}
    THEN IF position <= e.offset THEN [done |-> TRUE, segs |-> segs]
         ELSE [done |-> FALSE,
               segs |-> Append(segs, IF e.t = "objBegin" THEN NameSeg(<<>>) ELSE IndexSeg(0))]
  ELSE IF e.t = "prop"
    THEN IF position < e.offset THEN [done |-> TRUE, segs |-> segs]
         ELSE [done |-> position <= e.offset + e.length, segs |-> SetLast(segs, NameSeg(e.value))]
  ELSE IF e.t \in {"objEnd", "arrEnd"}
    THEN IF position <= e.offset THEN [done |-> TRUE, segs |-> segs]
         ELSE [done |-> FALSE, segs |-> Pop(segs)]
  ELSE IF e.t = "lit"
    THEN [done |-> position < e.offset \/ position <= e.offset + e.length, segs |-> segs]
  ELSE IF position <= e.offset THEN [done |-> TRUE, segs |-> segs]
  ELSE IF e.kind = ","
    THEN [done |-> FALSE,
          segs |-> SetLast(segs, IF segs[Len(segs)].isName THEN NameSeg(<<>>)
                                 ELSE IndexSeg(segs[Len(segs)].index + 1))]
  ELSE [done |-> FALSE, segs |-> segs]

RECURSIVE LocationFold(_, _, _, _)
LocationFold(ev, k, position, segs) ==
  IF k > Len(ev) THEN segs
  ELSE The({IF r.done THEN r.segs ELSE LocationFold(ev, k + 1, position, r.segs) :
             r \in {LocationVisitor(ev[k], position, segs)}})

\* getLocation(text, position).path
getLocation(text, position) ==
  The({LocationFold(ev, 1, at, <<>>) : <<ev, at>> \in {<<Visit(text).ev, position>>}})

\* the children of an object node that hold a key equal to `name` and a value
MatchingProperties(t, node, name) ==
  SelectSeq(t.nodes[node].children,
            LAMBDA p : /\ Len(t.nodes[p].children) = 2
                       /\ t.nodes[t.nodes[p].children[1]].value = name)

\* one segment of the path: the value of the property of that name, or the
\* element of that index
FindSegment(t, node, seg) ==
  IF seg.isName
    THEN IF t.nodes[node].type # "object" \/ MatchingProperties(t, node, seg.name) = <<>> THEN 0
         ELSE t.nodes[MatchingProperties(t, node, seg.name)[1]].children[2]
  ELSE IF t.nodes[node].type # "array" \/ seg.index >= Len(t.nodes[node].children) THEN 0
  ELSE t.nodes[node].children[seg.index + 1]

RECURSIVE FindFrom(_, _, _, _)
FindFrom(t, node, path, k) ==
  IF k > Len(path) \/ node = 0 THEN node
  ELSE The({FindFrom(t, next, path, k + 1) : next \in {FindSegment(t, node, path[k])}})

\* findNodeAtLocation(root, path): the index of the node, 0 for undefined
findNodeAtLocation(t, path) ==
  IF t.root = 0 THEN 0
  ELSE The({FindFrom(tv, tv.root, pv, 1) : <<tv, pv>> \in {<<t, path>>}})

(***************************************************************************)
(* jsonOutline: the window, the document and JsonOutlineProvider           *)
(***************************************************************************)
\* the JSON documents a run starts with: {"a":1,"b":[2,3]} and {"a":{"b":1}}
InitialDocs ==
  { <<"{">> \o Str(<<"a">>) \o <<":", "1", ",">> \o Str(<<"b">>)
          \o <<":", "[", "2", ",", "3", "]", "}">>,
    <<"{">> \o Str(<<"a">>) \o <<":", "{">> \o Str(<<"b">>) \o <<":", "1", "}", "}">> }

\* what the user types into the input box of rename(): undefined when the
\* box is dismissed
RenameInputs == {None, Some(<<"x">>), Some(<<"b">>), Some(<<"x", DQ>>)}

\* what a content change writes in place of the character it replaces
ChangeTexts == {<<>>, <<"2">>}

Min(a, b) == IF a < b THEN a ELSE b

Max(a, b) == IF a > b THEN a ELSE b

\* the text with the range [start, end) replaced (offsets clamp to the text)
Splice(text, start, end, new) ==
  LET s == Min(start, Len(text))
      e == Max(s, Min(end, Len(text)))
  IN SubSeq(text, 1, s) \o new \o SubSeq(text, e + 1, Len(text))

\* the changes of one event, given by ascending range, applied to the text
RECURSIVE ApplyChanges(_, _, _)
ApplyChanges(text, changes, k) ==
  IF k = 0 THEN text
  ELSE ApplyChanges(Splice(text, changes[k].start, changes[k].end, changes[k].text),
                    changes, k - 1)

\* the ids of the tree items: the offsets of the values of properties and of
\* the elements of arrays
ElementIds(t) ==
  { t.nodes[i].offset : i \in { j \in DOMAIN t.nodes :
      /\ t.nodes[j].parent > 1
      /\ \/ t.nodes[t.nodes[j].parent].type = "array"
         \/ /\ t.nodes[t.nodes[j].parent].type = "property"
            /\ Len(t.nodes[t.nodes[j].parent].children) = 2
            /\ t.nodes[t.nodes[j].parent].children[2] = j } }

\* the content changes one event can carry: the same text typed over one
\* character at each of 1..MaxChanges cursors, which stand at the first
\* character of the document or at the start of a value
ChangeEvents(text) ==
  { [i \in 1..k |-> [start |-> at[i], end |-> at[i] + 1, text |-> new]] :
      <<k, at, new>> \in
        { c \in UNION { {k} \X [1..k -> ({0} \cup ElementIds(parseTree(text)))
                                             \cap (0..(Len(text) - 1))] \X ChangeTexts : k \in 1..MaxChanges } :
            \A i \in 1..(c[1] - 1) : c[2][i] < c[2][i + 1] } }

NoCause == [offset |-> -1, isKey |-> FALSE, parentId |-> -1, pre |-> <<>>, post |-> <<>>]

\* doParseTree(): the provider's text, tree and editor, read from the window
doParseTree(active, doc) ==
  IF active = None THEN [text |-> <<>>, tree |-> NoTree, editor |-> None]
  ELSE [text |-> doc, tree |-> parseTree(doc), editor |-> active]

Provider == [text |-> joText, tree |-> joTree, editor |-> joEditor]

\* _onDidChangeTreeData.fire(id): the event with what an observer that reacts
\* to it finds (the provider's text and tree, the document in the active
\* editor); id -1 stands for undefined; `change` is the index of the content
\* change the event was fired for in the loop of onDocumentChanged(), else 0
Event(id, src, p, active, doc, cause) ==
  [id |-> id, src |-> src, text |-> p.text, tree |-> p.tree,
   doc |-> IF active = None THEN None ELSE Some(doc), cause |-> cause, change |-> 0]

\* refresh(offset) without its call of doParseTree(): the event is fired over
\* the text and tree the provider holds
refreshWithoutParse(offset, src, active, doc, cause) ==
  [p |-> Provider,
   fired |-> <<Event(IF offset # 0 THEN offset ELSE -1, src, Provider, active, doc, cause)>>,
   threw |-> FALSE, ran |-> "refresh", changes |-> 0]

\* refresh(offset)
refresh(offset, src, active, doc, cause) ==
  The({[p |-> p,
        fired |-> <<Event(IF offset # 0 THEN offset ELSE -1, src, p, active, doc, cause)>>,
        threw |-> FALSE, ran |-> "refresh", changes |-> 0] : p \in {doParseTree(active, doc)}})

\* the node onDocumentChanged() names in its event: the one at the location
\* of the change with the last segment dropped
ChangedNode(p, position) ==
  The({IF Len(locationPath) # 0 THEN findNodeAtLocation(p.tree, locationPath) ELSE 0 :
        locationPath \in {Pop(getLocation(p.text, position))}})

\* one round of the for loop of onDocumentChanged(), for the change k
ChangeStep(p, node, k, active, doc, cause) ==
  The({[p |-> q,
        event |-> [Event(IF node # 0 THEN p.tree.nodes[node].offset ELSE -1,
                         "documentChanged", q, active, doc, cause) EXCEPT !.change = k]] :
        q \in {doParseTree(active, doc)}})

\* the loop of onDocumentChanged() coalesced: one event for the first change,
\* whatever the number of changes
ChangesLoopCoalesced(p, out, changes, k, active, doc, cause) ==
  IF k > Len(changes)
    THEN [p |-> p, fired |-> out, threw |-> FALSE, ran |-> "loop", changes |-> Len(changes)]
  ELSE The({[p |-> r.p, fired |-> Append(out, r.event), threw |-> FALSE, ran |-> "loop",
             changes |-> Len(changes)] :
             r \in {The({ChangeStep(p, node, k, active, doc, cause) :
                          node \in {ChangedNode(p, Min(changes[k].start, Len(doc)))}})}})

\* the for loop of onDocumentChanged() from the change k on
RECURSIVE ChangesLoop(_, _, _, _, _, _, _)
ChangesLoop(p, out, changes, k, active, doc, cause) ==
  IF k > Len(changes)
    THEN [p |-> p, fired |-> out, threw |-> FALSE, ran |-> "loop", changes |-> Len(changes)]
  ELSE The({ChangesLoop(r.p, Append(out, r.event), changes, k + 1, active, doc, cause) :
             r \in {The({ChangeStep(p, node, k, active, doc, cause) :
                          node \in {ChangedNode(p, Min(changes[k].start, Len(doc)))}})}})

\* onDocumentChanged(changeEvent): `own` says the changed document is the one
\* of the provider's editor; reading the document of no editor throws
\* onDocumentChanged() without its condition: the loop runs for every change
\* event
onDocumentChangedAlways(p, auto, own, changes, active, doc, cause) ==
  IF p.editor = None THEN [p |-> p, fired |-> <<>>, threw |-> TRUE, ran |-> "", changes |-> 0]
  ELSE ChangesLoop(p, <<>>, changes, 1, active, doc, cause)

onDocumentChanged(p, auto, own, changes, active, doc, cause) ==
  IF p.editor = None THEN [p |-> p, fired |-> <<>>, threw |-> TRUE, ran |-> "", changes |-> 0]
  ELSE IF auto /\ own THEN ChangesLoop(p, <<>>, changes, 1, active, doc, cause)
  ELSE [p |-> p, fired |-> <<>>, threw |-> FALSE, ran |-> "", changes |-> 0]

NoJoCall == [pc |-> "idle", op |-> "none", arg |-> 0, threw |-> FALSE, out |-> <<>>,
             item |-> None]

\* the provider fields, the events and the throw a handler leaves behind; of
\* a handler that did not throw joCall keeps which firing code it ran, refresh()
\* or the loop of onDocumentChanged() with the number of content changes
Handled(op, result) ==
  \E r \in {result} :
  /\ joText' = r.p.text
  /\ joTree' = r.p.tree
  /\ joEditor' = r.p.editor
  /\ fired' = r.fired
  /\ joCall' = IF r.threw THEN [NoJoCall EXCEPT !.op = op, !.threw = TRUE]
                ELSE IF r.ran = "" THEN NoJoCall
                ELSE [NoJoCall EXCEPT !.op = r.ran, !.arg = r.changes]

\* the offsets the view can ask about: 0 for the root and the ids it can hold,
\* those of the provider's tree and those of the document as it is now
Offsets == {0} \cup ElementIds(joTree) \cup ElementIds(parseTree(docText))

\* the loop of getChildrenOffsets() over the children from the i-th on
RECURSIVE ChildrenLoop(_, _, _, _, _)
ChildrenLoop(text, t, kids, i, offsets) ==
  IF i > Len(kids) THEN offsets
  ELSE The({ChildrenLoop(text, t, kids, i + 1,
                         IF childNode # 0 THEN Append(offsets, t.nodes[childNode].offset)
                         ELSE offsets) :
             childNode \in {findNodeAtLocation(t, getLocation(text, t.nodes[kids[i]].offset))}})

\* getChildrenOffsets(node): iterating the children of no node, or of a node
\* without `children`, throws a TypeError
getChildrenOffsets(text, t, node) ==
  IF node = 0 \/ t.nodes[node].type \in {"string", "number"}
    THEN [threw |-> TRUE, out |-> <<>>]
    ELSE The({[threw |-> FALSE, out |-> offsets] :
               offsets \in {ChildrenLoop(text, t, t.nodes[node].children, 1, <<>>)}})

\* getChildren(offset)
getChildren(text, t, offset) ==
  IF offset # 0
    THEN The({getChildrenOffsets(text, t, node) :
               node \in {findNodeAtLocation(t, getLocation(text, offset))}})
  ELSE IF t.root # 0 THEN getChildrenOffsets(text, t, t.root)
  ELSE [threw |-> FALSE, out |-> <<>>]

\* the index of a node among the children of its parent
RECURSIVE IndexOf(_, _, _)
IndexOf(kids, node, i) ==
  IF i > Len(kids) THEN -1 ELSE IF kids[i] = node THEN i - 1 ELSE IndexOf(kids, node, i + 1)

\* getLabel(node): reading the type of the parent of the root throws
getLabel(t, node, doc) ==
  LET n == t.nodes[node]
  IN IF n.parent = 0 THEN [threw |-> TRUE, label |-> <<>>]
     ELSE LET parent == t.nodes[n.parent]
          IN IF parent.type = "array"
               THEN LET prefix == <<ToString(IndexOf(parent.children, node, 1))>>
                    IN [threw |-> FALSE,
                        label |-> IF n.type = "object" THEN prefix \o <<":", "{", " ", "}">>
                                  ELSE IF n.type = "array" THEN prefix \o <<":", "[", " ", "]">>
                                  ELSE prefix \o <<":">> \o n.value]
             ELSE LET property == t.nodes[parent.children[1]].value
                  IN [threw |-> FALSE,
                      label |-> IF n.type = "object" THEN <<"{", " ", "}", " ">> \o property
                                ELSE IF n.type = "array" THEN <<"[", " ", "]", " ">> \o property
                                ELSE property \o <<":", " ">>
                                       \o Slice(doc, Min(n.offset, Len(doc)),
                                                Min(n.offset + n.length, Len(doc)))]

\* the tree item getTreeItem() builds for the node it has found
TreeItemOf(t, valueNode, doc) ==
  The({IF label.threw THEN [threw |-> TRUE, item |-> None]
       ELSE [threw |-> FALSE,
             item |-> Some([label |-> label.label,
                            collapsibleState |->
                              IF t.nodes[valueNode].type = "object" THEN "Expanded"
                              ELSE IF t.nodes[valueNode].type = "array" THEN "Collapsed"
                              ELSE "None",
                            contextValue |-> t.nodes[valueNode].type])] :
        label \in {getLabel(t, valueNode, doc)}})

\* JsonOutlineProvider.getTreeItem(offset): the tree item, or null for an
\* offset that finds no node
jsonGetTreeItem(text, t, offset, doc) ==
  The({IF valueNode = 0 THEN [threw |-> FALSE, item |-> None]
       ELSE TreeItemOf(t, valueNode, doc) :
        valueNode \in {findNodeAtLocation(t, getLocation(text, offset))}})

\* the state the constructor leaves: doParseTree(), the autorefresh setting,
\* and onActiveEditorChanged(), which refreshes when an editor is active
JoInit ==
  /\ docText \in InitialDocs
  /\ activeEditor \in {None, Some("main")}
  /\ autoRefresh \in BOOLEAN
  /\ \E p \in {doParseTree(activeEditor, docText)} :
        /\ joText = p.text
        /\ joTree = p.tree
        /\ joEditor = p.editor
        /\ fired = IF activeEditor = None THEN <<>>
                   ELSE <<Event(-1, "refresh", p, activeEditor, docText, NoCause)>>
  /\ joEdit = None
  /\ joTimers = <<>>
  /\ joCall = NoJoCall
  /\ joEdits = 0

\* the outline provider is not constructed
JoUnused ==
  /\ docText = <<>>
  /\ activeEditor = None
  /\ autoRefresh = FALSE
  /\ joText = <<>>
  /\ joTree = NoTree
  /\ joEditor = None
  /\ fired = <<>>
  /\ joEdit = None
  /\ joTimers = <<>>
  /\ joCall = NoJoCall
  /\ joEdits = 0

\* the command jsonOutline.refresh / refreshNode: refresh(offset)
JoRefresh(offset) ==
  /\ joCall.pc = "idle"
  /\ Handled("refresh", refresh(offset, "refresh", activeEditor, docText, NoCause))
  /\ UNCHANGED <<docText, activeEditor, autoRefresh, joEdit, joTimers, joEdits>>
  /\ JoFrame

\* rename() without the redirection: the node at the offset is what it changes
RenameTargetValue(t, node) == node

\* what rename() changes: the key of the property the node is the value of,
\* or the element of the array itself
RenameTarget(t, node) ==
  IF t.nodes[t.nodes[node].parent].type # "array"
    THEN t.nodes[t.nodes[node].parent].children[1]
    ELSE node

\* the id of the tree item that shows the container of the node (-1: the root)
ParentId(t, node) ==
  LET parent == t.nodes[node].parent
      container == IF t.nodes[parent].type = "property" THEN t.nodes[parent].parent ELSE parent
  IN IF container = t.root THEN -1 ELSE t.nodes[container].offset

\* rename(offset): the input box, then the callback of editor.edit(), which
\* builds the edit and sets the timer; a throw in the callback leaves neither
JoRename(offset, input) ==
  /\ joCall.pc = "idle"
  /\ joEdits < MaxEdits
  /\ joEdit = None
  /\ UNCHANGED <<docText, activeEditor, autoRefresh, joText, joTree, joEditor>>
  /\ IF input = None
       THEN /\ fired' = <<>>
            /\ joCall' = NoJoCall
            /\ UNCHANGED <<joEdit, joTimers, joEdits>>
       ELSE \E node \in {findNodeAtLocation(joTree, getLocation(joText, offset))} :
               IF joEditor = None \/ node = 0 \/ joTree.nodes[node].parent = 0
                 THEN /\ fired' = <<>>
                      /\ joCall' = [NoJoCall EXCEPT !.op = "rename", !.threw = TRUE]
                      /\ UNCHANGED <<joEdit, joTimers, joEdits>>
                 ELSE LET target == joTree.nodes[RenameTarget(joTree, node)]
                          new == Str(The(input))
                          cause == [offset |-> offset,
                                    isKey |-> joTree.nodes[joTree.nodes[node].parent].type # "array",
                                    parentId |-> ParentId(joTree, node),
                                    pre |-> docText,
                                    post |-> Splice(docText, target.offset,
                                                    target.offset + target.length, new)]
                      IN /\ joEdit' = Some([start |-> target.offset,
                                            end |-> target.offset + target.length,
                                            text |-> new, base |-> docText, cause |-> cause])
                         /\ joTimers' = Append(joTimers, cause)
                         /\ joEdits' = joEdits + 1
                         /\ fired' = <<>>
                         /\ joCall' = NoJoCall
  /\ JoFrame

\* the editor applies the edit of rename() and the document-change event
\* reaches onDocumentChanged(); an edit built for a document that has changed
\* since is not applied
JoApplyEdit ==
  /\ joCall.pc = "idle"
  /\ joEdit # None
  /\ joEdit' = None
  /\ LET edit == The(joEdit)
     IN IF docText = edit.base
          THEN /\ docText' = Splice(docText, edit.start, edit.end, edit.text)
               /\ Handled("onDocumentChanged",
                          onDocumentChanged(Provider, autoRefresh, TRUE,
                                            <<[start |-> edit.start, end |-> edit.end,
                                               text |-> edit.text]>>,
                                            activeEditor, docText', edit.cause))
          ELSE /\ UNCHANGED <<docText, joText, joTree, joEditor>>
               /\ fired' = <<>>
               /\ joCall' = NoJoCall
  /\ UNCHANGED <<activeEditor, autoRefresh, joTimers, joEdits>>
  /\ JoFrame

\* the timer of rename() runs: doParseTree() and refresh(offset)
JoTimer ==
  /\ joCall.pc = "idle"
  /\ joTimers # <<>>
  /\ joTimers' = Tail(joTimers)
  /\ Handled("rename", refresh(Head(joTimers).offset, "rename", activeEditor, docText,
                               Head(joTimers)))
  /\ UNCHANGED <<docText, activeEditor, autoRefresh, joEdit, joEdits>>
  /\ JoFrame

\* the user changes the JSON document: onDocumentChanged() of the event
JoDocumentChanged(changes) ==
  /\ joCall.pc = "idle"
  /\ joEdits < MaxEdits
  /\ joEdits' = joEdits + 1
  /\ docText' = ApplyChanges(docText, changes, Len(changes))
  /\ Handled("onDocumentChanged",
             onDocumentChanged(Provider, autoRefresh, TRUE, changes, activeEditor, docText',
                               NoCause))
  /\ UNCHANGED <<activeEditor, autoRefresh, joEdit, joTimers>>
  /\ JoFrame

\* a document that is in no editor changes: onDocumentChanged() of the event
JoOtherDocumentChanged ==
  /\ joCall.pc = "idle"
  /\ Handled("onDocumentChanged",
             onDocumentChanged(Provider, autoRefresh, FALSE, <<[start |-> 0, end |-> 1,
                                                              text |-> <<>>]>>,
                               activeEditor, docText, NoCause))
  /\ UNCHANGED <<docText, activeEditor, autoRefresh, joEdit, joTimers, joEdits>>
  /\ JoFrame

\* the active editor changes: onActiveEditorChanged() refreshes for the editor
\* of the JSON file and only sets the context when there is no editor
JoActiveEditorChanged(active) ==
  /\ joCall.pc = "idle"
  /\ active # activeEditor
  /\ activeEditor' = active
  /\ IF active # None
       THEN Handled("onActiveEditorChanged", refresh(0, "refresh", active, docText, NoCause))
       ELSE /\ fired' = <<>>
            /\ joCall' = NoJoCall
            /\ UNCHANGED <<joText, joTree, joEditor>>
  /\ UNCHANGED <<docText, autoRefresh, joEdit, joTimers, joEdits>>
  /\ JoFrame

\* the configuration changes: the handler reads jsonOutline.autorefresh
JoConfigurationChanged(value) ==
  /\ joCall.pc = "idle"
  /\ value # autoRefresh
  /\ autoRefresh' = value
  /\ fired' = <<>>
  /\ joCall' = NoJoCall
  /\ UNCHANGED <<docText, activeEditor, joText, joTree, joEditor, joEdit, joTimers, joEdits>>
  /\ JoFrame

\* getChildren(offset) as a query that refreshes: it answers and fires
\* onDidChangeTreeData for the element
JoGetChildrenRefreshing(offset) ==
  /\ joCall.pc = "idle"
  /\ \E r \in {getChildren(joText, joTree, offset)} :
       joCall' = [pc |-> "returned", op |-> "getChildren", arg |-> offset,
                   threw |-> r.threw, out |-> r.out, item |-> None]
  /\ fired' = fired \o refreshWithoutParse(offset, "refresh", activeEditor, docText, NoCause).fired
  /\ UNCHANGED <<docText, activeEditor, joText, joTree, joEditor, autoRefresh, joEdit,
                 joTimers, joEdits>>
  /\ JoFrame

\* the view calls getChildren(offset)
JoGetChildren(offset) ==
  /\ joCall.pc = "idle"
  /\ \E r \in {getChildren(joText, joTree, offset)} :
       joCall' = [pc |-> "returned", op |-> "getChildren", arg |-> offset,
                   threw |-> r.threw, out |-> r.out, item |-> None]
  /\ UNCHANGED <<docText, activeEditor, joText, joTree, joEditor, autoRefresh, joEdit,
                 joTimers, fired, joEdits>>
  /\ JoFrame

\* the view calls getTreeItem(offset)
JoGetTreeItem(offset) ==
  /\ joCall.pc = "idle"
  /\ \E r \in {jsonGetTreeItem(joText, joTree, offset, docText)} :
       joCall' = [pc |-> "returned", op |-> "getTreeItem", arg |-> offset,
                   threw |-> r.threw, out |-> <<>>, item |-> r.item]
  /\ UNCHANGED <<docText, activeEditor, joText, joTree, joEditor, autoRefresh, joEdit,
                 joTimers, fired, joEdits>>
  /\ JoFrame

\* the view has taken the result of its query
JoReturn ==
  /\ joCall.pc = "returned"
  /\ joCall' = NoJoCall
  /\ UNCHANGED <<docText, activeEditor, joText, joTree, joEditor, autoRefresh, joEdit,
                 joTimers, fired, joEdits>>
  /\ JoFrame

\* the commands and the handlers the constructor registers: what changes the
\* provider and fires its events
NextJsonEvents ==
  \/ \E offset \in {0} \cup ElementIds(joTree) : JoRefresh(offset)
  \/ \E offset \in ElementIds(joTree), input \in RenameInputs : JoRename(offset, input)
  \/ JoApplyEdit
  \/ JoTimer
  \/ \E changes \in ChangeEvents(docText) : JoDocumentChanged(changes)
  \/ JoOtherDocumentChanged
  \/ \E active \in {None, Some("main")} : JoActiveEditorChanged(active)
  \/ \E value \in BOOLEAN : JoConfigurationChanged(value)

\* the same with the queries of the view, which read the provider and change
\* nothing of it
NextJson ==
  \/ NextJsonEvents
  \/ \E offset \in Offsets : JoGetChildren(offset)
  \/ \E offset \in Offsets : JoGetTreeItem(offset)
  \/ JoReturn

(***************************************************************************)
(* nodeDependencies: DepNodeProvider.  The files it reads are the           *)
(* package.json of the workspace root and, for each module name, the        *)
(* directory node_modules/<name> and the package.json in it.  A package.json *)
(* is invalid (JSON.parse throws) or holds its two optional objects, each   *)
(* the sequence of its entries in insertion order.                          *)
(***************************************************************************)
DepNames == {"p", "q"}

Package(deps, devDeps) == [valid |-> TRUE, dependencies |-> deps, devDependencies |-> devDeps]

InvalidPackage == [valid |-> FALSE, dependencies |-> None, devDependencies |-> None]

NoModule == [installed |-> FALSE, pkg |-> None]

\* the workspaces the provider is studied on: no workspace root, a root
\* without package.json, a root whose package.json does not parse, and a root
\* with the dependency p (installed, with the dependency q of its own) and the
\* devDependency q (not installed)
DepWorkspaces ==
  { [root |-> FALSE, pkg |-> None, mods |-> [n \in DepNames |-> NoModule]],
    [root |-> TRUE, pkg |-> None, mods |-> [n \in DepNames |-> NoModule]],
    [root |-> TRUE, pkg |-> Some(InvalidPackage), mods |-> [n \in DepNames |-> NoModule]],
    [root |-> TRUE,
     pkg |-> Some(Package(Some(<<Entry("p", "1")>>), Some(<<Entry("q", "2")>>))),
     mods |-> [n \in DepNames |->
                 IF n = "p"
                   THEN [installed |-> TRUE,
                         pkg |-> Some(Package(Some(<<Entry("q", "2")>>), None))]
                   ELSE NoModule]] }

\* new Dependency(label, version, collapsibleState, command?)
Dependency(label, version, state) ==
  [label |-> label, version |-> version, collapsibleState |-> state,
   command |-> IF state = "None" THEN Some("extension.openPackageOnNpm") ELSE None]

\* toDep over the keys of one of the two objects of a package.json
DepsOf(files, obj) ==
  IF obj = None THEN <<>>
  ELSE [i \in DOMAIN The(obj) |->
          Dependency(The(obj)[i].key, The(obj)[i].val,
                     IF files.mods[The(obj)[i].key].installed THEN "Collapsed" ELSE "None")]

\* getDepsInPackageJson(packageJsonPath) for the file `pkg` (None: no such file)
getDepsInPackageJson(files, pkg) ==
  IF pkg = None THEN [threw |-> FALSE, out |-> <<>>]
  ELSE IF ~The(pkg).valid THEN [threw |-> TRUE, out |-> <<>>]
  ELSE [threw |-> FALSE,
        out |-> DepsOf(files, The(pkg).dependencies) \o DepsOf(files, The(pkg).devDependencies)]

NoDepCall == [op |-> "none", arg |-> None, threw |-> FALSE, out |-> <<>>, message |-> ""]

DepInit ==
  /\ depFiles \in DepWorkspaces
  /\ depCall = NoDepCall

\* the dependency provider while another provider is studied: no workspace
DepUnused ==
  /\ depFiles = [root |-> FALSE, pkg |-> None, mods |-> [n \in DepNames |-> NoModule]]
  /\ depCall = NoDepCall

\* DepNodeProvider.getChildren(element)
DepGetChildren(element) ==
  /\ depCall' =
       IF ~depFiles.root
         THEN [NoDepCall EXCEPT !.op = "getChildren", !.arg = element,
                                !.message = "No dependency in empty workspace"]
       ELSE IF element # None
         THEN getDepsInPackageJson(depFiles, depFiles.mods[The(element).label].pkg) @@
              [NoDepCall EXCEPT !.op = "getChildren", !.arg = element]
       ELSE IF depFiles.pkg # None
         THEN getDepsInPackageJson(depFiles, depFiles.pkg) @@
              [NoDepCall EXCEPT !.op = "getChildren", !.arg = element]
       ELSE [NoDepCall EXCEPT !.op = "getChildren", !.arg = element,
                              !.message = "Workspace has no package.json"]
  /\ UNCHANGED depFiles
  /\ DepFrame

\* DepNodeProvider.getTreeItem(element): the element itself
DepGetTreeItem(element) ==
  /\ depCall' = [NoDepCall EXCEPT !.op = "getTreeItem", !.arg = element, !.out = <<element>>]
  /\ UNCHANGED depFiles
  /\ DepFrame

\* the elements the view can hold: what getChildren has returned for a workspace
DepElements ==
  {Dependency(n, v, st) : n \in DepNames, v \in {"1", "2"}, st \in {"Collapsed", "None"}}

NextTree ==
  \/ \E e \in TvElements : TvGetChildren(e)
  \/ \E e \in TvElements : TvGetTreeItem(e)
  \/ \E e \in TvElements : TvGetParent(e)

(***************************************************************************)
(* Specifications: one per provider                                        *)
(***************************************************************************)
InitTree == TvInit /\ FtpInit /\ FsUnused /\ JoUnused /\ DepUnused

SpecTree == InitTree /\ [][NextTree]_vars

InitFtp == TvInit /\ FtpInit /\ FsUnused /\ JoUnused /\ DepUnused

SpecFtp == InitFtp /\ [][NextFtp]_vars

InitFs == TvInit /\ FtpInit /\ FsInit /\ JoUnused /\ DepUnused

SpecFs == InitFs /\ [][NextFs]_vars

InitFsWatch == TvInit /\ FtpInit /\ FsWatchInit /\ JoUnused /\ DepUnused

SpecFsWatch == InitFsWatch /\ [][NextFsWatch]_vars

InitJson == TvInit /\ FtpInit /\ FsUnused /\ JoInit /\ DepUnused

SpecJson == InitJson /\ [][NextJson]_vars

SpecJsonEvents == InitJson /\ [][NextJsonEvents]_vars

InitFsWriters == TvInit /\ FtpInit /\ FsWritersInit /\ JoUnused /\ DepUnused

SpecFsWriters == InitFsWriters /\ [][NextFsWriters]_vars

\* the dependency provider on its workspaces
InitDep == TvInit /\ FtpInit /\ FsUnused /\ JoUnused /\ DepInit

\* a provider has no query under way and has answered none
TvQuiet == tvCall = NoTvCall /\ nodes = {}

FtpQuiet == ftpOps = <<>>

FsQuiet == \A c \in FsCallers : fsCalls[c] = IdleCall

JoQuiet == joCall = NoJoCall

DepQuiet == depCall = NoDepCall

\* the queries of the five tree data providers and nothing that mutates: the
\* providers share no state, so the view's queries are followed one provider
\* at a time, the static tree and the FTP server next to an empty workspace
TvTurn == FtpQuiet /\ FsUnused /\ JoUnused /\ DepUnused

FtpTurn == TvQuiet /\ FsUnused /\ JoUnused /\ DepUnused

FsTurn == TvQuiet /\ FtpQuiet /\ JoUnused /\ DepUnused

JoTurn == TvQuiet /\ FtpQuiet /\ FsUnused /\ DepUnused

DepTurn == TvQuiet /\ FtpQuiet /\ FsUnused /\ JoUnused

\* the elements the view holds of the static tree: those getChildren handed out
TvHeld == {None} \cup {Some([key |-> k]) : k \in nodes}

NextQueries ==
  \/ TvTurn /\ \E e \in TvHeld : TvGetChildren(e)
  \/ TvTurn /\ \E e \in TvHeld : TvGetTreeItem(e)
  \/ TvTurn /\ \E e \in TvHeld : TvGetParent(e)
  \/ FtpTurn /\ FtpStart("roots", <<>>)
  \/ FtpTurn /\ \E d \in FtpDirs : FtpStart("getChildren", d)
  \/ FtpTurn /\ \E o \in DOMAIN ftpOps : FtpReady(o)
  \/ FtpTurn /\ \E o \in DOMAIN ftpOps : FtpConnectError(o)
  \/ FtpTurn /\ \E o \in DOMAIN ftpOps : \E l \in FtpListings : FtpListDone(o, l)
  \/ FtpTurn /\ \E o \in DOMAIN ftpOps : FtpListError(o)
  \/ FsTurn /\ \E c \in FsCallers, u \in FsUris :
       FsBegin(c, [NewCall("getChildren", "readdir") EXCEPT !.uri = u, !.element = TRUE])
  \/ FsTurn /\ \E c \in FsCallers, wf \in BOOLEAN :
       FsBegin(c, IF wf THEN [NewCall("getChildren", "readdir") EXCEPT !.uri = FsRoot]
                  ELSE Fulfil(NewCall("getChildren", "readdir")))
  \/ FsTurn /\ \E c \in FsCallers, deny \in Denials :
       \E order \in Perms(ChildNames(fs, fsCalls[c].uri)) : FsReaddir(c, order, deny)
  \/ FsTurn /\ \E c \in FsCallers, deny \in Denials : FsStatChild(c, deny)
  \/ FsTurn /\ \E c \in FsCallers : FsReturn(c)
  \/ JoTurn /\ \E offset \in Offsets : JoGetChildren(offset)
  \/ JoTurn /\ \E offset \in Offsets : JoGetTreeItem(offset)
  \/ JoTurn /\ JoReturn
  \/ DepTurn /\ \E element \in {None} \cup {Some(e) : e \in DepElements} :
       DepGetChildren(element)
  \/ DepTurn /\ \E e \in DepElements : DepGetTreeItem(e)

InitQueries == InitTree \/ InitFs \/ InitJson \/ InitDep

SpecQueries == InitQueries /\ [][NextQueries]_vars

(***************************************************************************)
(* Claims                                                                  *)
(***************************************************************************)
\* C1: every node c returned by getChildren(p) has getParent(c) = p (for the
\* root, p = undefined, so getParent of a top-level node is undefined).
C1_ParentChildInverse ==
  tvCall.op = "getChildren" =>
    \A i \in DOMAIN tvCall.children :
      getParent(tvCall.children[i].key) = tvCall.arg

\* C1 witness: getChildren of the nested key "a" returned its two children
\* after the root's children had been listed
C1_Witness ==
  /\ tvCall.op = "getChildren"
  /\ tvCall.arg = Some([key |-> <<"a">>])
  /\ Len(tvCall.children) = 2
  /\ <<"b">> \in nodes

\* whether the text parses without an error
ParseOk(text) == Visit(text).errs = 0

\* whether the offset finds an object or an array in the provider's tree
ResolvesToContainer(offset) ==
  \E node \in {findNodeAtLocation(joTree, getLocation(joText, offset))} :
    node # 0 /\ joTree.nodes[node].type \in {"object", "array"}

\* C2: getChildren(offset) for a non-zero offset that finds no object or array
\* in the tree (no tree, no node at the location, a string or a number)
\* resolves to the empty sequence and does not throw.
C2_NonResolvingChildrenEmpty ==
  (joCall.op = "getChildren" /\ joCall.arg # 0 /\ ~ResolvesToContainer(joCall.arg))
    => (~joCall.threw /\ joCall.out = <<>>)

\* C3: every event the provider fires is fired over the text of the document
\* in the active editor as it is at that moment and over the tree parsed from
\* that text (the empty text and no tree when no editor is active).
C3_EventsAfterRederivation ==
  \A i \in DOMAIN fired :
    IF fired[i].doc = None
      THEN fired[i].text = <<>> /\ fired[i].tree = NoTree
      ELSE /\ fired[i].text = The(fired[i].doc)
           /\ fired[i].tree = parseTree(The(fired[i].doc))

\* the deferred refresh of a rename fires after the editor has applied the edit
C3_Witness ==
  \E i \in DOMAIN fired :
    /\ fired[i].src = "rename"
    /\ fired[i].cause.post # fired[i].cause.pre
    /\ fired[i].doc = Some(fired[i].cause.post)

\* C4: the event rename(offset) publishes after it has renamed the key of a
\* property addresses the item that holds the property (the root, undefined,
\* for a property of the top-level object), not the value of the property.
C4_RenameEventAddressesParent ==
  \A i \in DOMAIN fired :
    (/\ fired[i].src = "rename"
     /\ fired[i].cause.isKey
     /\ fired[i].cause.post # fired[i].cause.pre
     /\ fired[i].doc = Some(fired[i].cause.post))
      => fired[i].id = fired[i].cause.parentId

\* C5: when the text a rename produces does not parse, the edit is rolled
\* back: every event that follows from the rename is fired over the text as it
\* was before the edit, never over the broken one.
C5_RenameRolledBackOnParseFailure ==
  \A i \in DOMAIN fired :
    (/\ fired[i].cause # NoCause
     /\ ParseOk(fired[i].cause.pre)
     /\ ~ParseOk(fired[i].cause.post))
      => fired[i].text = fired[i].cause.pre


FtpSettled(o) == ftpOps[o].pc \in {"fulfilled", "rejected"}

\* C7: each FtpModel operation opens exactly one connection, and once its
\* promise has settled (fulfilled or rejected) that connection is no longer
\* open: it has been ended (or never came up, when connecting failed).
C7_ConnectionClosedWhenSettled ==
  \A o \in DOMAIN ftpOps :
    /\ Cardinality({c \in DOMAIN ftpClients : ftpClients[c].owner = o}) = 1
    /\ FtpSettled(o) => ftpClients[ftpOps[o].client].state \in {"ended", "failed"}

\* directories before everything else, and by name within the directories and
\* within the rest
ListingSorted(l) ==
  \A i, j \in DOMAIN l :
    i < j =>
      /\ l[j].type = "Directory" => l[i].type = "Directory"
      /\ (l[i].type = "Directory") = (l[j].type = "Directory")
           => localeCompare(l[i].name, l[j].name) <= 0

\* C6: every directory listing a provider returns has all directories before
\* all non-directories and is ordered by name within each group; for
\* FileSystemProvider.getChildren at the workspace root and for a nested
\* directory element alike.
C6_ListingsSorted ==
  \A c \in DOMAIN fsCalls :
    fsCalls[c].op = "getChildren" /\ fsCalls[c].status = "ok"
      => ListingSorted(fsCalls[c].out)

\* The part of C6 that the code keeps: the root listing of the file explorer
\* is sorted, and so is what FtpModel.roots / getChildren resolve with.
RootListingSorted ==
  \A c \in DOMAIN fsCalls :
    fsCalls[c].op = "getChildren" /\ fsCalls[c].status = "ok" /\ ~fsCalls[c].element
      => ListingSorted(fsCalls[c].out)

FtpListingSorted ==
  \A o \in DOMAIN ftpOps :
    ftpOps[o].pc = "fulfilled" =>
      ListingSorted([i \in DOMAIN ftpOps[o].nodes |->
        [name |-> ftpOps[o].nodes[i].name,
         type |-> IF ftpOps[o].nodes[i].isDirectory THEN "Directory" ELSE "File"]])

\* C8: a rename that ends in an error leaves the file system as it was before
\* the call (the entry at newUri is still there, no parent directory was made).
C8_FailedRenameChangesNothing ==
  \A c \in DOMAIN fsCalls :
    fsCalls[c].op = "rename" /\ fsCalls[c].status = "error" => fs = fsBefore[c]

\* the three precondition failures, read off the file system the call started on
MissingNoCreate(c) ==
  fsCalls[c].op = "writeFile" /\ ~SysExists(fsBefore[c], fsCalls[c].uri) /\ ~fsCalls[c].create

PresentNoOverwrite(c) ==
  fsCalls[c].op = "writeFile" /\ SysExists(fsBefore[c], fsCalls[c].uri) /\ ~fsCalls[c].overwrite

TargetNoOverwrite(c) ==
  fsCalls[c].op = "rename" /\ SysExists(fsBefore[c], fsCalls[c].uri2) /\ ~fsCalls[c].overwrite

\* C9: writeFile on a missing path with create=false fails with FileNotFound,
\* writeFile on an existing path with overwrite=false fails with FileExists,
\* rename onto an existing newUri with overwrite=false fails with FileExists;
\* in each case the call issues no writing fs call and the file system stays
\* as it was when the call started.
C9_PreconditionErrorsChangeNothing ==
  \A c \in DOMAIN fsCalls :
    MissingNoCreate(c) \/ PresentNoOverwrite(c) \/ TargetNoOverwrite(c) =>
      /\ fsCalls[c].writes = 0
      /\ fs = fsBefore[c]
      /\ fsCalls[c].pc \in {"exists", "done"}
      /\ fsCalls[c].pc = "done" =>
           /\ fsCalls[c].status = "error"
           /\ fsCalls[c].error = IF MissingNoCreate(c) THEN "FileNotFound" ELSE "FileExists"

\* C9 witness: a writeFile with create=false on a path that does not exist has
\* failed with FileNotFound, below a directory that does exist
C9_Witness ==
  \E c \in DOMAIN fsCalls :
    /\ MissingNoCreate(c)
    /\ fsCalls[c].pc = "done"
    /\ fsCalls[c].error = "FileNotFound"
    /\ fsCalls[c].uri = <<"a", "b">>
    /\ fs[<<"a">>].kind = "dir"

\* C10: an error of an underlying fs call reaches the caller translated by its
\* code (ENOENT -> FileNotFound, EEXIST -> FileExists, EPERM and EACCES ->
\* NoPermissions), never as the raw error.
C10_OsErrorsTranslated ==
  \A c \in DOMAIN fsCalls :
    fsCalls[c].status = "error" =>
      /\ fsCalls[c].oscode = "ENOENT" => fsCalls[c].error = "FileNotFound"
      /\ fsCalls[c].oscode = "EEXIST" => fsCalls[c].error = "FileExists"
      /\ fsCalls[c].oscode \in {"EPERM", "EACCES"} => fsCalls[c].error = "NoPermissions"

\* C12: a document-change notification for the provider's own document, with
\* autoRefresh on, fires one event per content change, the i-th event for the
\* i-th change (the edit of a rename is a notification with one change); and
\* every call of refresh (the command, the timer of rename, the change of the
\* active editor to the JSON document) fires exactly one event.
C12_NoCoalescing ==
  /\ (joCall.op = "loop" /\ ~joCall.threw) =>
       /\ Len(fired) = joCall.arg
       /\ \A i \in DOMAIN fired : fired[i].src = "documentChanged" /\ fired[i].change = i
  /\ (joCall.op = "refresh" /\ ~joCall.threw) =>
       /\ Len(fired) = 1
       /\ fired[1].src \in {"refresh", "rename"} /\ fired[1].change = 0

\* C12 witness: a notification with two content changes has fired its two
\* events, the first for the first change and the second for the second
C12_Witness ==
  /\ joCall.op = "loop" /\ joCall.arg = 2
  /\ Len(fired) = 2
  /\ \A i \in DOMAIN fired : fired[i].src = "documentChanged" /\ fired[i].change = i
  /\ fired[1].id # fired[2].id

\* C13: the edit rename(offset) builds replaces, for a node whose parent is
\* not an array, exactly the span of the first child of that parent (the key)
\* and no part of the span of the node itself (the value); for an element of
\* an array it replaces exactly the span of the element.  The new text is the
\* entered value between double quotes, and a dismissed input box leaves the
\* document alone and no edit behind.  Spans are those of the provider's tree;
\* where its text is the document's, the key replaced is a string token of the
\* document and the characters of the value are the same after the edit.
C13_RenameReplacesKeyOrElement ==
  [][
    \A offset \in ElementIds(joTree), input \in RenameInputs :
      JoRename(offset, input) =>
        IF input = None THEN UNCHANGED <<docText, joEdit, joTimers>>
        ELSE joEdit' # None =>
          \E node \in {findNodeAtLocation(joTree, getLocation(joText, offset))} :
            LET edit == The(joEdit')
                self == joTree.nodes[node]
                parent == joTree.nodes[self.parent]
                key == joTree.nodes[parent.children[1]]
                delta == Len(edit.text) - (edit.end - edit.start)
                post == Splice(docText, edit.start, edit.end, edit.text)
            IN /\ edit.text = <<DQ>> \o The(input) \o <<DQ>>
               /\ (joText = docText /\ parent.type # "array") =>
                    /\ docText[edit.start + 1] = DQ /\ docText[edit.end] = DQ
                    /\ Slice(post, self.offset + delta, self.offset + self.length + delta)
                         = Slice(docText, self.offset, self.offset + self.length)
               /\ IF parent.type # "array"
                    THEN /\ edit.start = key.offset
                         /\ edit.end = key.offset + key.length
                         /\ edit.end <= self.offset \/ self.offset + self.length <= edit.start
                    ELSE /\ edit.start = self.offset
                         /\ edit.end = self.offset + self.length
  ]_vars

\* C13 witness: rename of the item of a property has built the edit of the
\* key, which lies before the offset of the item, and rename of an element of
\* an array is possible in the same document
C13_Witness ==
  /\ joEdit # None
  /\ The(joEdit).cause.isKey
  /\ The(joEdit).end < The(joEdit).cause.offset
  /\ The(joEdit).text = <<DQ, "x", DQ>>

\* the offsets of the values of the properties of an object, or of the elements
\* of an array, in the order of the source
ValueOffsets(t, container) ==
  LET kids == t.nodes[container].children
  IN [i \in DOMAIN kids |->
        IF t.nodes[container].type = "object"
          THEN t.nodes[t.nodes[kids[i]].children[2]].offset
          ELSE t.nodes[kids[i]].offset]

\* whether every property of the object has a value (as in a text that parses)
Complete(t, container) ==
  \A i \in DOMAIN t.nodes[container].children :
    t.nodes[container].type = "object" => Len(t.nodes[t.nodes[container].children[i]].children) = 2

\* C14: getChildren() of a document whose root is an object returns one node
\* per property of the root, in the order the keys are declared; getChildren
\* of an array-valued node returns one node per element, in source order;
\* getTreeItem reports children exactly for objects and arrays; and an array
\* element at index i with the primitive value v is labeled i:v.  Stated for
\* the texts that parse without an error.
C14_OutlineMaterialization ==
  ParseOk(joText) =>
  /\ (/\ joCall.op = "getChildren" /\ joCall.pc = "returned"
      /\ joCall.arg = 0
      /\ joTree.root # 0 /\ joTree.nodes[joTree.root].type = "object"
      /\ Complete(joTree, joTree.root))
       => (~joCall.threw /\ joCall.out = ValueOffsets(joTree, joTree.root))
  /\ (/\ joCall.op = "getChildren" /\ joCall.pc = "returned"
      /\ joCall.arg # 0)
       => \A node \in {findNodeAtLocation(joTree, getLocation(joText, joCall.arg))} :
            (node # 0 /\ joTree.nodes[node].type = "array")
              => (~joCall.threw /\ joCall.out = ValueOffsets(joTree, node))
  /\ (/\ joCall.op = "getTreeItem" /\ joCall.pc = "returned"
      /\ joCall.item # None)
       => \A node \in {findNodeAtLocation(joTree, getLocation(joText, joCall.arg))} :
            /\ (The(joCall.item).collapsibleState # "None")
                 = (joTree.nodes[node].type \in {"object", "array"})
            /\ (/\ joTree.nodes[joTree.nodes[node].parent].type = "array"
                /\ joTree.nodes[node].type \in {"number", "string"})
                 => \E i \in DOMAIN joTree.nodes[joTree.nodes[node].parent].children :
                      /\ joTree.nodes[joTree.nodes[node].parent].children[i] = node
                      /\ The(joCall.item).label
                           = <<ToString(i - 1), ":">> \o joTree.nodes[node].value

\* what a query must leave alone: the documents and the parsed tree, the
\* directory tree and its watcher, the package.json files, and every event log
QuerySources ==
  <<docText, activeEditor, joText, joTree, joEditor, autoRefresh, joEdit, joTimers, fired,
    fs, fsWatcher, fsQueue, fsChecks, fsFired, depFiles>>

\* the directory entries getChildren lists for the directory `uri` of `f`
FsChildEntries(f, uri) ==
  {[name |-> n, type |-> FileType(KindOf(f, Append(uri, n)))] : n \in ChildNames(f, uri)}

C16_NoOverwriteUnderInterleaving ==
  [][ /\ \A c \in FsCallers :
           (/\ fsCalls[c].op = "writeFile" /\ fsCalls[c].pc = "write"
            /\ ~fsCalls[c].overwrite
            /\ fs[fsCalls[c].uri].kind = "file"
            /\ fsCalls'[c].status = "ok")
             => fs'[fsCalls[c].uri] = fs[fsCalls[c].uri]
      /\ \A c, d \in FsCallers :
           (/\ c # d
            /\ fsCalls'[c].op = "writeFile" /\ fsCalls'[d].op = "writeFile"
            /\ fsCalls'[c].uri = fsCalls'[d].uri
            /\ fsCalls'[c].create /\ ~fsCalls'[c].overwrite
            /\ fsCalls'[d].create /\ ~fsCalls'[d].overwrite
            /\ fsBefore'[c][fsCalls'[c].uri].kind = "none"
            /\ fsBefore'[d][fsCalls'[d].uri].kind = "none")
             => ~(fsCalls'[c].status = "ok" /\ fsCalls'[d].status = "ok")
    ]_vars

\* C17: onDocumentChanged() changes nothing when autoRefresh is false or the
\* changed document is not the one of the provider's editor: text, tree and
\* editor stay as they are and no change event is fired; and autoRefresh
\* changes only in a step of the configuration-changed handler.
C17_DocumentChangedFrame ==
  [][ /\ (/\ ~autoRefresh
          /\ joEdits' # joEdits \/ (joEdit # None /\ joEdit' = None))
           => (UNCHANGED <<joText, joTree, joEditor>> /\ fired' = <<>>)
      /\ JoOtherDocumentChanged
           => (UNCHANGED <<joText, joTree, joEditor>> /\ fired' = <<>>)
      /\ autoRefresh' # autoRefresh
           => \E value \in BOOLEAN : JoConfigurationChanged(value)
    ]_vars

\* the document has changed under a provider that has an editor and does not
\* refresh by itself: its text is the old one and nothing was fired
C17_Witness ==
  /\ ~autoRefresh /\ joEdits > 0
  /\ joEditor # None /\ joText # docText
  /\ fired = <<>> /\ joCall = NoJoCall

\* C11: each deletion of a file below a watched directory gives exactly one
\* FileChangeEvent for its path, and the type of that event is Deleted,
\* whatever else happens to the path before the callback's existence check
\* completes.
C11_DeletionFiresOneDeleted ==
  \A i \in DOMAIN fsFired :
    fsFired[i].cause = "deleted" /\ fsFired[i].was = "file" =>
      /\ fsFired[i].type = "Deleted"
      /\ \A j \in DOMAIN fsFired : fsFired[j].note = fsFired[i].note => j = i
====
